---- MODULE Spec2Model ----
(***************************************************************************)
(* Session / command engine of the Shello terminal chat client             *)
(* (frontend/app/routes/terminal.tsx, component Terminal).                 *)
(*                                                                         *)
(* One action per reaction of the single-threaded event loop: transport    *)
(* open / close, inbound reply, inbound broadcast, the two timers, a       *)
(* submitted command line and the unmount cleanup.  Sequential handler     *)
(* code is written as a chain of pure steps over a "frame" record that     *)
(* carries the values a handler mutates on its way (log, id counter,       *)
(* requests placed on the transport, suppression flag, thrown exception).  *)
(*                                                                         *)
(* The callbacks installed by connectWebSocket belong to the render of     *)
(* the mount effect (useEffect(..., [])); the values of `user` and         *)
(* `roomID` they read are the ones of that render (mountUser,              *)
(* mountRoomID).  Command handlers run in the current render.              *)
(***************************************************************************)
EXTENDS Integers, Sequences, FiniteSets, TLC

\* ------------------------------------------------------------------ bounds
MaxSockets    == 2      \* transports opened in one run
MaxInputs     == 1      \* command lines submitted plus broadcasts delivered in one run
MaxLogLen     == 3      \* log length in the message-log specification
MaxLocalId    == 4      \* last local id handed out in the message-log specification
MaxHistory    == 3      \* entries of the room history in the relative-deletion specification
MaxLineLen    == 3      \* pieces of an enumerated command line
MaxArgLen     == 5      \* pieces of an argument text in the quoting specification
MaxDeletes    == 4      \* command lines and broadcasts in the deletion specification
MaxSubmits    == 2      \* lines submitted in the submission specification

\* --------------------------------------------------------------- constants
NoSocket  == 0          \* ws.current === null
NoTimer   == 0          \* reconnectTimeoutRef.current === null
NoId      == 0          \* pushMessage called without an id
NoReadBy  == -1         \* readBy: undefined
NoRoomID  == -1         \* useState<[number,string]> default [-1, "null"]
NoRoomName == "null"

Kinds      == {"OUT", "IN", "INFO", "ERROR", "COMMAND", "TEMPINFO", "CLEAR", "CLEAR_ALL"}
Evictable  == {"COMMAND", "ERROR", "TEMPINFO"}
UserNames  == {"alice", "bob"}
ServerIds  == {1, 2}    \* MessageID values the server hands out
ServerRooms == << [id |-> 1, name |-> "r1"], [id |-> 2, name |-> "r2"] >>

\* A text is a template plus the value interpolated into it.
T(tmpl, arg) == << tmpl, arg >>

Deleted == T("[Nachricht geloescht]", "")

\* ------------------------------------------------------------- message log
Entry(id, text, kind, sender) ==
    [ id |-> id, text |-> text, kind |-> kind, sender |-> sender,
      ts |-> "now", readBy |-> IF kind = "OUT" THEN 0 ELSE NoReadBy ]

undefined == "undefined"

\* One element of the result list of a get_messages reply as the server
\* sends it; a field the server leaves out is undefined (NoReadBy for the
\* number ReadBy).
ServerMsg(id, name, readBy) ==
    [ MessageID |-> id, Text |-> "hi", Name |-> name, Time |-> "server",
      ReadBy |-> readBy ]

\* data.result.map(...) of case "get_messages".
history(result) ==
    [ i \in 1..Len(result) |->
        LET msg == result[i]
        IN [ id |-> msg.MessageID,
             text |-> T(IF msg.Text = undefined THEN "" ELSE msg.Text, ""),
             kind |-> "IN",
             sender |-> IF msg.Name = undefined THEN "unknown" ELSE msg.Name,
             ts |-> IF msg.Time \in {undefined, ""} THEN "now" ELSE msg.Time,
             readBy |-> IF msg.ReadBy = NoReadBy THEN 0 ELSE msg.ReadBy ] ]

\* One entry of a get_messages result, mapped as the reply handler maps it.
ServerEntry(id, sender, readBy) == history(<< ServerMsg(id, sender, readBy) >>)[1]

pushMessage_keepsErrors(f, text, kind, sender, id) ==
    IF kind = "CLEAR_ALL" THEN [f EXCEPT !.messages = << >>]
    ELSE IF kind = "CLEAR"
    THEN [f EXCEPT !.messages = SelectSeq(@, LAMBDA e : e.kind = "IN")]
    ELSE LET updated == IF kind \in {"INFO", "IN"}
                        THEN SelectSeq(f.messages,
                                 LAMBDA e : e.kind \notin {"COMMAND", "TEMPINFO"})
                        ELSE f.messages
         IN [f EXCEPT
               !.messages = Append(updated,
                   Entry(IF id # NoId THEN id ELSE f.idRef, text, kind, sender)),
               !.idRef = IF id # NoId THEN @ ELSE @ + 1]

pushMessage_clearKeepsInfo(f, text, kind, sender, id) ==
    IF kind = "CLEAR_ALL" THEN [f EXCEPT !.messages = << >>]
    ELSE IF kind = "CLEAR"
    THEN [f EXCEPT !.messages = SelectSeq(@, LAMBDA e : e.kind \in {"IN", "INFO"})]
    ELSE LET updated == IF kind \in {"INFO", "IN"}
                        THEN SelectSeq(f.messages, LAMBDA e : e.kind \notin Evictable)
                        ELSE f.messages
         IN [f EXCEPT
               !.messages = Append(updated,
                   Entry(IF id # NoId THEN id ELSE f.idRef, text, kind, sender)),
               !.idRef = IF id # NoId THEN @ ELSE @ + 1]

pushMessage(f, text, kind, sender, id) ==
    IF kind = "CLEAR_ALL" THEN [f EXCEPT !.messages = << >>]
    ELSE IF kind = "CLEAR"
    THEN [f EXCEPT !.messages = SelectSeq(@, LAMBDA e : e.kind = "IN")]
    ELSE LET updated == IF kind \in {"INFO", "IN"}
                        THEN SelectSeq(f.messages, LAMBDA e : e.kind \notin Evictable)
                        ELSE f.messages
         IN [f EXCEPT
               !.messages = Append(updated,
                   Entry(IF id # NoId THEN id ELSE f.idRef, text, kind, sender)),
               !.idRef = IF id # NoId THEN @ ELSE @ + 1]

tryPushMessage_neverClears(f, text, kind, sender) ==
    IF f.silent THEN f
    ELSE pushMessage(f, text, kind, sender, NoId)

tryPushMessage(f, text, kind, sender) ==
    IF f.silent THEN [f EXCEPT !.silent = FALSE]
    ELSE pushMessage(f, text, kind, sender, NoId)

\* pushMessage is handed msg.timestamp as well and does not use it: the entry
\* gets new Date().
pushMessageDirectly(f, msg) ==
    pushMessage(f, msg.text, msg.kind, msg.sender, msg.id)

\* Index of the first entry with the given id, 0 when there is none (findIndex).
findIndex(m, id) ==
    IF \E i \in 1..Len(m) : m[i].id = id
    THEN CHOOSE i \in 1..Len(m) :
            m[i].id = id /\ \A j \in 1..(i - 1) : m[j].id # id
    ELSE 0

markDeleted_removes(m, id) ==
    SelectSeq(m, LAMBDA e : e.id # id)

markDeleted(m, id) ==
    LET msgToDelete == findIndex(m, id)
    IN IF msgToDelete = 0 THEN m
       ELSE [m EXCEPT ![msgToDelete] = [@ EXCEPT !.text = Deleted, !.kind = "INFO"]]

\* ----------------------------------------------------------------- requests
Req(func, str, room_id, message_id) ==
    [ func |-> func, str |-> str, room_id |-> room_id, message_id |-> message_id ]

send_whateverReadyState(f, w, readyState, req) ==
    IF w = NoSocket THEN f
    ELSE [f EXCEPT !.sent = Append(@, req)]

\* ws.current?.send(...): nothing without a handle, InvalidStateError while
\* the socket is still connecting, dropped while closing or closed.
send(f, w, readyState, req) ==
    IF w = NoSocket THEN f
    ELSE IF readyState = "CONNECTING"
    THEN [f EXCEPT !.thrown = TRUE, !.errText = T("InvalidStateError", "")]
    ELSE IF readyState = "OPEN" THEN [f EXCEPT !.sent = Append(@, req)]
    ELSE f

VARIABLES
    messages,             \* useState: the message log
    idRef,                \* useRef(1): local id counter
    user,                 \* useState: identity
    roomID, roomName,     \* useState: current room
    rooms,                \* useState: cached room list
    store,                \* localStorage["shelloSession"]
    mountUser,            \* `user` as captured by the mount-effect closure
    mountRoomID,          \* `roomID` as captured by the mount-effect closure
    ws,                   \* ws.current
    sock,                 \* readyState of every transport created so far
    handlers,             \* transports whose callbacks are still attached
    nSock,                \* transports created so far
    onlineFlag,           \* onlineFlag.current
    nextRequestSilent,    \* nextRequestSilent.current
    reconnectTimeoutRef,  \* reconnectTimeoutRef.current
    timers,               \* pending reconnect timers
    nTimer,               \* reconnect timers created so far
    bootTimers,           \* pending 100 ms bootstrap timers
    tornDown,             \* the cleanup of the mount effect has run
    sent,                 \* requests placed on the current transport, in order
    acked,                \* how many of them the server has answered
    nInputs,              \* command lines and broadcasts consumed so far
    systemNotification,   \* useState: text of the notification window
    themeColors,          \* useState: the theme in use
    savedThemes,          \* localStorage["savedThemes"]
    awaiting,             \* calls of handleCommandLine suspended at `await handler(...)`
    ev                    \* the reaction that ran last

vars == << messages, idRef, user, roomID, roomName, rooms, store, mountUser,
           mountRoomID, ws, sock, handlers, nSock, onlineFlag,
           nextRequestSilent, reconnectTimeoutRef, timers, nTimer, bootTimers,
           tornDown, sent, acked, nInputs, systemNotification, themeColors,
           savedThemes, awaiting, ev >>

sessionVars == << user, roomID, roomName, rooms, store >>
connVars    == << ws, sock, handlers, nSock, onlineFlag, reconnectTimeoutRef,
                  timers, nTimer >>
uiVars      == << systemNotification, themeColors, savedThemes >>

Sockets == 1..MaxSockets

Frame == [ messages |-> messages, idRef |-> idRef, sent |-> sent,
           silent |-> nextRequestSilent, thrown |-> FALSE,
           errText |-> T("", ""), roomID |-> roomID, roomName |-> roomName,
           note |-> systemNotification, themeColors |-> themeColors,
           savedThemes |-> savedThemes ]

Ev(name, n) == [ name |-> name, n |-> n ]

ReadyState(w) == IF w = NoSocket THEN "NONE" ELSE sock[w]

\* defaultTheme: every colour at its built-in value.
defaultTheme ==
    [ textColor |-> "default", bgColor |-> "default", borderColor |-> "default",
      outerBgColor |-> "default", buttonHoverBgColor |-> "default",
      systemTextColor |-> "default" ]

\* -------------------------------------------------------- persisted session
Snapshot(u, id, name) == [ user |-> u, roomID |-> id, roomName |-> name ]
NoSnapshot == Snapshot("", 0, "")

saveSessionToStorage(u, id, name) == Snapshot(u, id, name)

\* What localStorage may hold when the component mounts.
InitialStores ==
    { NoSnapshot,
      Snapshot("alice", 1, "r1"),
      Snapshot("guest", 1, "r1") }

loadUser(saved) == IF saved = NoSnapshot \/ saved.user = "" THEN "guest" ELSE saved.user
loadRoomID(saved) == IF saved = NoSnapshot THEN NoRoomID ELSE saved.roomID
loadRoomName(saved) == IF saved = NoSnapshot THEN NoRoomName ELSE saved.roomName

\* --------------------------------------------------------------------- Init
\* The state after the first render and its effects: session loaded and
\* saved back, connectWebSocket() called once.
Init ==
    \E saved \in InitialStores :
        /\ user = loadUser(saved)
        /\ roomID = loadRoomID(saved)
        /\ roomName = loadRoomName(saved)
        /\ mountUser = loadUser(saved)
        /\ mountRoomID = loadRoomID(saved)
        /\ store = saveSessionToStorage(loadUser(saved), loadRoomID(saved), loadRoomName(saved))
        /\ rooms = << >>
        /\ messages = << Entry(1, T("Connecting...", ""), "TEMPINFO", "System") >>
        /\ idRef = 2
        /\ ws = 1
        /\ sock = [s \in Sockets |-> IF s = 1 THEN "CONNECTING" ELSE "NONE"]
        /\ handlers = {1}
        /\ nSock = 1
        /\ onlineFlag = FALSE
        /\ nextRequestSilent = FALSE
        /\ reconnectTimeoutRef = NoTimer
        /\ timers = {}
        /\ nTimer = 0
        /\ bootTimers = 0
        /\ tornDown = FALSE
        /\ sent = << >>
        /\ acked = 0
        /\ nInputs = 0
        /\ systemNotification = ""
        /\ themeColors = defaultTheme
        /\ savedThemes = << >>
        /\ awaiting = << >>
        /\ ev = Ev("mount", 0)

\* Write a frame back to the variables it was taken from.
Commit(f) ==
    /\ messages' = f.messages
    /\ idRef' = f.idRef
    /\ sent' = f.sent
    /\ nextRequestSilent' = f.silent

\* ------------------------------------------------------ connection lifecycle
getRooms(f, w, readyState) == send(f, w, readyState, Req("get_rooms", "", 0, 0))

\* getHistory() of the render whose roomID is rid.
getHistory(f, w, readyState, rid) ==
    send(f, w, readyState, Req("get_messages", "", rid, 0))

\* connectWebSocket(): a new transport becomes ws.current, with the three
\* callbacks attached; the request history restarts with the new transport.
connectWebSocket ==
    LET f == pushMessage(Frame, T("Connecting...", ""), "TEMPINFO", "System", NoId)
    IN /\ ws' = nSock + 1
       /\ sock' = [sock EXCEPT ![nSock + 1] = "CONNECTING"]
       /\ handlers' = handlers \cup {nSock + 1}
       /\ nSock' = nSock + 1
       /\ messages' = f.messages
       /\ idRef' = f.idRef
       /\ sent' = << >>
       /\ acked' = 0

onopen_historyFirst(s) ==
    LET f1 == pushMessage(Frame, T("Connected to Shello Server.", ""), "INFO", "System", NoId)
        f2 == [f1 EXCEPT !.silent = TRUE]
        f3 == getHistory(f2, ws, "OPEN", mountRoomID)
        f4 == getRooms(f3, ws, "OPEN")
    IN /\ onlineFlag' = TRUE
       /\ Commit(f4)
       /\ bootTimers' = IF mountRoomID > 0 THEN bootTimers + 1 ELSE bootTimers

\* ws.current.onopen of transport s (s is ws.current while its callbacks are
\* attached, and its readyState is OPEN when the callback runs).
onopen(s) ==
    LET f1 == pushMessage(Frame, T("Connected to Shello Server.", ""), "INFO", "System", NoId)
        f2 == [f1 EXCEPT !.silent = TRUE]
        f3 == getRooms(f2, ws, "OPEN")
        f4 == IF mountUser # "" /\ mountUser # "guest"
              THEN send(f3, ws, "OPEN", Req("login_as", mountUser, 0, 0))
              ELSE f3
    IN /\ onlineFlag' = TRUE
       /\ Commit(f4)
       /\ bootTimers' = IF mountRoomID > 0 THEN bootTimers + 1 ELSE bootTimers

\* The transport reports that the connection is established.
SockOpen(s) ==
    /\ sock[s] = "CONNECTING"
    /\ sock' = [sock EXCEPT ![s] = "OPEN"]
    /\ IF s \in handlers
       THEN onopen(s)
       ELSE UNCHANGED << onlineFlag, messages, idRef, sent, nextRequestSilent, bootTimers >>
    /\ ev' = Ev("open", s)
    /\ UNCHANGED << sessionVars, mountUser, mountRoomID, uiVars, awaiting, ws, handlers, nSock,
                    reconnectTimeoutRef, timers, nTimer, tornDown, acked, nInputs >>

onclose_noRetry(s) ==
    LET f == IF onlineFlag
             THEN pushMessage(Frame, T("Disconnected from Shello Server.", ""),
                              "INFO", "System", NoId)
             ELSE Frame
    IN /\ messages' = f.messages
       /\ idRef' = f.idRef
       /\ onlineFlag' = FALSE
       /\ IF ws # NoSocket
          THEN handlers' = handlers \ {ws} /\ ws' = NoSocket
          ELSE UNCHANGED << handlers, ws >>
       /\ UNCHANGED << nTimer, timers, reconnectTimeoutRef >>

onclose_alwaysNotice(s) ==
    LET f == pushMessage(Frame, T("Disconnected from Shello Server.", ""),
                         "INFO", "System", NoId)
    IN /\ messages' = f.messages
       /\ idRef' = f.idRef
       /\ onlineFlag' = FALSE
       /\ IF ws # NoSocket
          THEN handlers' = handlers \ {ws} /\ ws' = NoSocket
          ELSE UNCHANGED << handlers, ws >>
       /\ nTimer' = nTimer + 1
       /\ timers' = timers \cup {nTimer + 1}
       /\ reconnectTimeoutRef' = nTimer + 1

onclose_keepsCallbacks(s) ==
    LET f == IF onlineFlag
             THEN pushMessage(Frame, T("Disconnected from Shello Server.", ""),
                              "INFO", "System", NoId)
             ELSE Frame
    IN /\ messages' = f.messages
       /\ idRef' = f.idRef
       /\ onlineFlag' = FALSE
       /\ UNCHANGED << handlers, ws >>
       /\ nTimer' = nTimer + 1
       /\ timers' = timers \cup {nTimer + 1}
       /\ reconnectTimeoutRef' = nTimer + 1

\* ws.current.onclose of transport s.
onclose(s) ==
    LET f == IF onlineFlag
             THEN pushMessage(Frame, T("Disconnected from Shello Server.", ""),
                              "INFO", "System", NoId)
             ELSE Frame
    IN /\ messages' = f.messages
       /\ idRef' = f.idRef
       /\ onlineFlag' = FALSE
       /\ IF ws # NoSocket
          THEN handlers' = handlers \ {ws} /\ ws' = NoSocket
          ELSE UNCHANGED << handlers, ws >>
       /\ nTimer' = nTimer + 1
       /\ timers' = timers \cup {nTimer + 1}
       /\ reconnectTimeoutRef' = nTimer + 1

\* The transport reports that the connection is gone (dropped, failed to
\* connect, or closed by close()).  At most MaxSockets transports are opened
\* in a run, so the last one stays.
SockClose(s) ==
    /\ sock[s] \in {"CONNECTING", "OPEN", "CLOSING"}
    /\ nSock < MaxSockets
    /\ sock' = [sock EXCEPT ![s] = "CLOSED"]
    /\ IF s \in handlers
       THEN onclose(s)
       ELSE UNCHANGED << messages, idRef, onlineFlag, handlers, ws, nTimer,
                         timers, reconnectTimeoutRef >>
    /\ ev' = Ev("close", IF s \in handlers /\ onlineFlag THEN 1 ELSE 0)
    /\ UNCHANGED << sessionVars, mountUser, mountRoomID, uiVars, awaiting, nSock, nextRequestSilent,
                    bootTimers, tornDown, sent, acked, nInputs >>

ReconnectTimer_staysPending ==
    /\ bootTimers = 0
    /\ \E t \in timers :
          /\ timers' = timers
          /\ ev' = Ev("reconnect", t)
    /\ connectWebSocket
    /\ UNCHANGED << sessionVars, mountUser, mountRoomID, uiVars, awaiting, onlineFlag,
                    nextRequestSilent, reconnectTimeoutRef, nTimer, bootTimers,
                    tornDown, nInputs >>

\* The 3000 ms timer set by onclose fires.  A 100 ms bootstrap timer set
\* before that close has an earlier deadline and has fired by then.
ReconnectTimer ==
    /\ bootTimers = 0
    /\ \E t \in timers :
          /\ timers' = timers \ {t}
          /\ ev' = Ev("reconnect", t)
    /\ connectWebSocket
    /\ UNCHANGED << sessionVars, mountUser, mountRoomID, uiVars, awaiting, onlineFlag,
                    nextRequestSilent, reconnectTimeoutRef, nTimer, bootTimers,
                    tornDown, nInputs >>

\* The 100 ms timer set by onopen fires: join_room, then getHistory(), both
\* with the room of the mount-effect closure.
BootTimer ==
    /\ bootTimers > 0
    /\ bootTimers' = bootTimers - 1
    /\ LET f1 == send(Frame, ws, ReadyState(ws), Req("join_room", "", mountRoomID, 0))
           f2 == IF f1.thrown THEN f1 ELSE getHistory(f1, ws, ReadyState(ws), mountRoomID)
       IN Commit(f2)
    /\ ev' = Ev("boot_timer", 0)
    /\ UNCHANGED << sessionVars, mountUser, mountRoomID, uiVars, awaiting, connVars, tornDown,
                    acked, nInputs >>

\* The cleanup of the mount effect: clearTimeout, ws.current?.close().
Teardown ==
    /\ ~tornDown
    /\ tornDown' = TRUE
    /\ timers' = IF reconnectTimeoutRef # NoTimer
                 THEN timers \ {reconnectTimeoutRef}
                 ELSE timers
    /\ IF ws # NoSocket /\ sock[ws] \in {"CONNECTING", "OPEN"}
       THEN sock' = [sock EXCEPT ![ws] = "CLOSING"]
       ELSE sock' = sock
    /\ ev' = Ev("teardown", 0)
    /\ UNCHANGED << messages, idRef, sessionVars, mountUser, mountRoomID, uiVars, awaiting, ws,
                    handlers, nSock, onlineFlag, nextRequestSilent,
                    reconnectTimeoutRef, nTimer, bootTimers, sent, acked, nInputs >>

\* ------------------------------------------------------------ inbound replies
RoomLists == { << >>, ServerRooms }

HistoryResults ==
    { << >>,
      << ServerMsg(1, "alice", 1), ServerMsg(2, "bob", 0) >> }

\* The logs these results leave.
HistoryLogs == { history(result) : result \in HistoryResults }

RoomIdOf(name) == IF name = "r1" THEN 1 ELSE 2

\* A message event reaches onmessage only on an open transport whose
\* callbacks are attached.
CanReceive == ws # NoSocket /\ sock[ws] = "OPEN" /\ ws \in handlers

\* The server answers the requests of a connection in the order they arrived.
NextRequest == sent[acked + 1]
Answering(func) == CanReceive /\ acked < Len(sent) /\ NextRequest.func = func

ReplyCode(err) == (IF err THEN 1 ELSE 0) + (IF nextRequestSilent THEN 2 ELSE 0)

ReplyFrame_offlineOnError(func, err) ==
    /\ acked' = acked + 1
    /\ ev' = Ev(func, ReplyCode(err))
    /\ onlineFlag' = (onlineFlag /\ ~err)
    /\ UNCHANGED << mountUser, mountRoomID, uiVars, awaiting, ws, sock, handlers, nSock,
                    reconnectTimeoutRef, timers, nTimer, bootTimers, tornDown, nInputs >>

ReplyFrame(func, err) ==
    /\ acked' = acked + 1
    /\ ev' = Ev(func, ReplyCode(err))
    /\ UNCHANGED << mountUser, mountRoomID, uiVars, awaiting, connVars, bootTimers, tornDown, nInputs >>

ReplyGetRooms_silentSkipsCache(result) ==
    /\ Answering("get_rooms")
    /\ rooms' = IF nextRequestSilent THEN rooms ELSE result
    /\ Commit(IF Len(result) = 0
              THEN tryPushMessage(Frame, T("Keine Raeume verfuegbar.", ""), "TEMPINFO", "System")
              ELSE tryPushMessage(Frame, T("Verfuegbare Raeume:", ""), "TEMPINFO", "System"))
    /\ ReplyFrame("get_rooms", FALSE)
    /\ UNCHANGED << user, roomID, roomName, store >>

\* case "get_rooms"
ReplyGetRooms(result) ==
    /\ Answering("get_rooms")
    /\ rooms' = result
    /\ Commit(IF Len(result) = 0
              THEN tryPushMessage(Frame, T("Keine Raeume verfuegbar.", ""), "TEMPINFO", "System")
              ELSE tryPushMessage(Frame, T("Verfuegbare Raeume:", ""), "TEMPINFO", "System"))
    /\ ReplyFrame("get_rooms", FALSE)
    /\ UNCHANGED << user, roomID, roomName, store >>

\* case "msg"
ReplyMsg(err) ==
    /\ Answering("msg")
    /\ Commit(IF err
              THEN tryPushMessage(Frame, T("Fehler beim Senden der Nachricht: ", "err"), "ERROR", "System")
              ELSE Frame)
    /\ ReplyFrame("msg", err)
    /\ UNCHANGED sessionVars

\* case "get_messages": the result list replaces the log ([] when it is not
\* a list).
ReplyGetMessages_appends(err, result) ==
    /\ Answering("get_messages")
    /\ messages' = IF err THEN messages ELSE messages \o history(result)
    /\ ReplyFrame("get_messages", err)
    /\ UNCHANGED << idRef, sent, nextRequestSilent, sessionVars >>

ReplyGetMessages(err, result) ==
    /\ Answering("get_messages")
    /\ messages' = IF err THEN << >> ELSE history(result)
    /\ ReplyFrame("get_messages", err)
    /\ UNCHANGED << idRef, sent, nextRequestSilent, sessionVars >>

\* case "join_room"
ReplyJoinRoom(err) ==
    /\ Answering("join_room")
    /\ Commit(IF err
              THEN tryPushMessage(Frame, T("Fehler beim Beitreten: ", "err"), "ERROR", "System")
              ELSE Frame)
    /\ ReplyFrame("join_room", err)
    /\ UNCHANGED sessionVars

ReplyLoginAs_ignoresError(err) ==
    /\ Answering("login_as")
    /\ user' = NextRequest.str
    /\ Commit(IF err
              THEN tryPushMessage(Frame, T("Fehler beim Wechsel des Nutzers: ", "err"), "ERROR", "System")
              ELSE tryPushMessage(Frame, T("Gewechselt zu Nutzer ", NextRequest.str), "INFO", "System"))
    /\ store' = saveSessionToStorage(user', roomID, roomName)
    /\ ReplyFrame("login_as", err)
    /\ UNCHANGED << roomID, roomName, rooms >>

\* case "login_as"
ReplyLoginAs(err) ==
    /\ Answering("login_as")
    /\ user' = IF err THEN user ELSE NextRequest.str
    /\ Commit(IF err
              THEN tryPushMessage(Frame, T("Fehler beim Wechsel des Nutzers: ", "err"), "ERROR", "System")
              ELSE tryPushMessage(Frame, T("Gewechselt zu Nutzer ", NextRequest.str), "INFO", "System"))
    /\ store' = saveSessionToStorage(user', roomID, roomName)
    /\ ReplyFrame("login_as", err)
    /\ UNCHANGED << roomID, roomName, rooms >>

\* case "create_user"
ReplyCreateUser(err) ==
    /\ Answering("create_user")
    /\ user' = IF err THEN user ELSE NextRequest.str
    /\ Commit(IF err
              THEN tryPushMessage(Frame, T("Fehler bei der Erstellung des Nutzers: ", "err"), "ERROR", "System")
              ELSE tryPushMessage(Frame, T("Gewechselt zu neu ertelltem Nutzer ", NextRequest.str), "INFO", "System"))
    /\ store' = saveSessionToStorage(user', roomID, roomName)
    /\ ReplyFrame("create_user", err)
    /\ UNCHANGED << roomID, roomName, rooms >>

\* case "create_room": reports with pushMessage, not tryPushMessage.
ReplyCreateRoom(err) ==
    /\ Answering("create_room")
    /\ LET newRoomName == NextRequest.str
           newRoomId == RoomIdOf(newRoomName)
           f1 == pushMessage(Frame, T("Raum erfolgreich erstellt: ", newRoomName), "TEMPINFO", "System", NoId)
           f2 == pushMessage(f1, T("Zu Raum gewechselt: ", newRoomName), "TEMPINFO", "System", NoId)
           f3 == send(f2, ws, "OPEN", Req("join_room", "", newRoomId, 0))
           f4 == getRooms([f3 EXCEPT !.silent = TRUE], ws, "OPEN")
       IN IF err
          THEN /\ Commit(pushMessage(Frame, T("Fehler beim Erstellen des Raums: ", "err"), "ERROR", "System", NoId))
               /\ UNCHANGED << roomID, roomName, store >>
          ELSE /\ Commit(f4)
               /\ roomID' = newRoomId
               /\ roomName' = newRoomName
               /\ store' = saveSessionToStorage(user, newRoomId, newRoomName)
    /\ ReplyFrame("create_room", err)
    /\ UNCHANGED << user, rooms >>

\* case "delete_msg"
ReplyDeleteMsg(err) ==
    /\ Answering("delete_msg")
    /\ Commit(IF err
              THEN tryPushMessage(Frame, T("Fehler beim Loeschen der Nachricht: ", "err"), "ERROR", "System")
              ELSE tryPushMessage(Frame, T("Nachricht erfolgreich geloescht.", ""), "INFO", "System"))
    /\ ReplyFrame("delete_msg", err)
    /\ UNCHANGED sessionVars

\* The cases of the response switch that throw out of onmessage.
onmessageThrows(func, err) == func = "nameof_user" /\ err

\* case "nameof_user": the client never asks for it; the server may push it.
\* With an error the handler throws out of onmessage; either way nothing of
\* the modelled state changes (knownUsers is display data).
ReplyNameofUser(err) ==
    /\ CanReceive
    /\ ev' = Ev("nameof_user", ReplyCode(err))
    /\ UNCHANGED << messages, idRef, sessionVars, mountUser, mountRoomID, uiVars, awaiting,
                    connVars, nextRequestSilent, bootTimers, tornDown, sent,
                    acked, nInputs >>

\* --------------------------------------------------------- inbound broadcasts
CanBroadcast == CanReceive /\ nInputs < MaxInputs

BroadcastFrame(name, n) ==
    /\ nInputs' = nInputs + 1
    /\ ev' = Ev(name, n)
    /\ UNCHANGED << sessionVars, mountUser, mountRoomID, uiVars, awaiting, connVars, bootTimers,
                    tornDown, acked >>

\* case "new_message"
BcNewMessage(id, sender) ==
    /\ CanBroadcast
    /\ Commit(pushMessageDirectly(Frame,
                [ id |-> id, text |-> T("hi", ""), kind |-> "IN", sender |-> sender,
                  timestamp |-> "server", readBy |-> 0 ]))
    /\ BroadcastFrame("new_message", id)

\* case "room_created"
BcRoomCreated(name) ==
    /\ CanBroadcast
    /\ LET f1 == getRooms([Frame EXCEPT !.silent = TRUE], ws, "OPEN")
       IN Commit(pushMessage(f1, T("Raum erfolgreich erstellt: ", name), "TEMPINFO", "System", NoId))
    /\ BroadcastFrame("room_created", 0)

\* case "room_updated"
BcRoomUpdated ==
    /\ CanBroadcast
    /\ Commit(getRooms([Frame EXCEPT !.silent = TRUE], ws, "OPEN"))
    /\ BroadcastFrame("room_updated", 0)

\* case "message_deleted"
BcMessageDeleted(id) ==
    /\ CanBroadcast
    /\ messages' = markDeleted(messages, id)
    /\ BroadcastFrame("message_deleted", id)
    /\ UNCHANGED << idRef, sent, nextRequestSilent >>

\* case "user_joined" / "user_left": only the known-user list (display data).
BcUserJoinedLeft(name) ==
    /\ CanBroadcast
    /\ BroadcastFrame(name, 0)
    /\ UNCHANGED << messages, idRef, sent, nextRequestSilent >>

\* ------------------------------------------------------- inbound classification
\* A decoded message: its event and response discriminators (undefined when
\* the field is missing), whether it carries an error, and the message id of
\* its payload.  A reply with an error carries no result.
EventNames    == { "new_message", "room_created", "room_updated", "user_joined",
                   "user_left", "message_deleted" }
ResponseNames == { "get_rooms", "msg", "get_messages", "join_room", "login_as",
                   "create_user", "create_room", "nameof_user", "delete_msg" }

\* if (data.event): a missing field and the empty string are both falsy.
truthy(x) == x # "undefined" /\ x # ""

\* No case of the switch matches: onmessage returns.
NoCase ==
    /\ CanReceive
    /\ ev' = Ev("onmessage", 0)
    /\ UNCHANGED << messages, idRef, sessionVars, mountUser, mountRoomID, uiVars, awaiting,
                    connVars, nextRequestSilent, bootTimers, tornDown, sent,
                    acked, nInputs >>

\* switch (data.event)
onBroadcast(data) ==
    CASE data.event = "new_message" -> BcNewMessage(data.id, "alice")
      [] data.event = "room_created" -> BcRoomCreated("r1")
      [] data.event = "room_updated" -> BcRoomUpdated
      [] data.event \in {"user_joined", "user_left"} -> BcUserJoinedLeft(data.event)
      [] data.event = "message_deleted" -> BcMessageDeleted(data.id)
      [] OTHER -> NoCase

\* switch (data.response)
onResponse(data) ==
    CASE data.response = "get_rooms" ->
            ReplyGetRooms(IF data.error THEN << >> ELSE ServerRooms)
      [] data.response = "msg" -> ReplyMsg(data.error)
      [] data.response = "get_messages" ->
            ReplyGetMessages(data.error,
                << ServerMsg(1, "alice", 1), ServerMsg(2, "bob", 0) >>)
      [] data.response = "join_room" -> ReplyJoinRoom(data.error)
      [] data.response = "login_as" -> ReplyLoginAs(data.error)
      [] data.response = "create_user" -> ReplyCreateUser(data.error)
      [] data.response = "create_room" -> ReplyCreateRoom(data.error)
      [] data.response = "nameof_user" -> ReplyNameofUser(data.error)
      [] data.response = "delete_msg" -> ReplyDeleteMsg(data.error)
      [] OTHER -> NoCase

onmessage_responseFirst(data) ==
    IF data.response \in ResponseNames THEN onResponse(data) ELSE onBroadcast(data)

\* ws.current.onmessage
onmessage(data) ==
    IF truthy(data.event) THEN onBroadcast(data) ELSE onResponse(data)

\* ------------------------------------------------------------- command line
\* A line is a sequence of pieces: a piece is whitespace, one of the two
\* quote characters, or a run of ordinary characters (parseCommand appends
\* ordinary characters to the current word one by one, so a run behaves as
\* one character does).
Blank  == " "
Quotes == { "\"", "'" }

RECURSIVE str(_)
str(pieces) == IF pieces = << >> THEN "" ELSE pieces[1] \o str(Tail(pieces))

\* !line.trim()
isBlank(line) == \A i \in 1..Len(line) : line[i] = Blank

pushWord_keepsEmpty(st) ==
    [st EXCEPT !.args = Append(@, st.cur), !.cur = << >>]

pushWord(st) ==
    IF st.cur # << >> THEN [st EXCEPT !.args = Append(@, st.cur), !.cur = << >>] ELSE st

closeQuote_keepsWord(st) ==
    [st EXCEPT !.inQuote = FALSE, !.quoteChar = ""]

\* The closing quote: the span ends, and so does the word if there is one.
closeQuote(st) ==
    pushWord([st EXCEPT !.inQuote = FALSE, !.quoteChar = ""])

RECURSIVE scan(_, _, _)
scan(input, i, st) ==
    IF i > Len(input) THEN st
    ELSE LET ch == input[i]
         IN scan(input, i + 1,
                 IF st.inQuote
                 THEN IF ch = st.quoteChar
                      THEN closeQuote(st)
                      ELSE [st EXCEPT !.cur = Append(@, ch)]
                 ELSE IF ch \in Quotes
                      THEN [st EXCEPT !.inQuote = TRUE, !.quoteChar = ch]
                      ELSE IF ch = Blank
                      THEN pushWord(st)
                      ELSE [st EXCEPT !.cur = Append(@, ch)])

words_dropsLast(input) ==
    LET st == scan(input, 1, [ args |-> << >>, cur |-> << >>,
                               inQuote |-> FALSE, quoteChar |-> "" ])
    IN [ args |-> st.args, inQuote |-> st.inQuote ]

\* The words parseCommand collects, each as the pieces it is made of, and
\* whether the line ended inside a quote.
words(input) ==
    LET st == scan(input, 1, [ args |-> << >>, cur |-> << >>,
                               inQuote |-> FALSE, quoteChar |-> "" ])
    IN [ args |-> pushWord(st).args, inQuote |-> st.inQuote ]

parseCommand_lenient(input) ==
    LET w == words(input)
        all == [ i \in 1..Len(w.args) |-> str(w.args[i]) ]
    IN [ thrown |-> FALSE,
         cmd |-> IF all = << >> THEN "" ELSE all[1],
         args |-> IF all = << >> THEN << >> ELSE Tail(all) ]

parseCommand(input) ==
    LET w == words(input)
        all == [ i \in 1..Len(w.args) |-> str(w.args[i]) ]
    IN IF w.inQuote
       THEN [ thrown |-> TRUE, cmd |-> "", args |-> << >> ]
       ELSE [ thrown |-> FALSE,
              cmd |-> IF all = << >> THEN "" ELSE all[1],
              args |-> IF all = << >> THEN << >> ELSE Tail(all) ]

\* ----------------------------------------------------------------- registry
COMMANDS ==
    { "h", "whoami", "clear", "clearall", "history", "send", "forge",
      "impersonate", "create room", "accede", "roomtour", "annihilate",
      "theme", "theme save", "theme load", "help", "exit" }

\* COMMANDS[key]: COMMANDS is an object literal, so a key it does not own is
\* looked up on Object.prototype ("constructor" is the function Object,
\* "__proto__" is the prototype object itself).
lookup(key) ==
    IF key \in COMMANDS THEN key
    ELSE IF key = "constructor" THEN "Object"
    ELSE IF key = "__proto__" THEN "Object.prototype"
    ELSE undefined

resolve_bareFirst(cmd, args) ==
    LET sub == /\ Len(args) > 0
               /\ lookup(cmd) = undefined
               /\ lookup(cmd \o " " \o args[1]) # undefined
    IN IF sub
       THEN [ handler |-> lookup(cmd \o " " \o args[1]), finalArgs |-> Tail(args) ]
       ELSE [ handler |-> lookup(cmd), finalArgs |-> args ]

\* The two probes of handleCommandLine.
resolve(cmd, args) ==
    LET sub == Len(args) > 0 /\ lookup(cmd \o " " \o args[1]) # undefined
    IN IF sub
       THEN [ handler |-> lookup(cmd \o " " \o args[1]), finalArgs |-> Tail(args) ]
       ELSE [ handler |-> lookup(cmd), finalArgs |-> args ]

\* ------------------------------------------------------------------ handlers
\* Handlers run in the current render: they read the current user, room,
\* room list, log and theme.
throw(f, text) == [f EXCEPT !.thrown = TRUE, !.errText = text]

catch(f) ==
    IF f.thrown
    THEN pushMessage([f EXCEPT !.thrown = FALSE], f.errText, "ERROR", "System", NoId)
    ELSE f

showSystemNotification(f, text) == [f EXCEPT !.note = text]

RECURSIVE join(_)
join(args) ==
    IF Len(args) = 0 THEN ""
    ELSE IF Len(args) = 1 THEN args[1]
    ELSE args[1] \o " " \o join(Tail(args))

sendMessage(f, text) == send(f, ws, ReadyState(ws), Req("msg", text, roomID, 0))
createUser(f, username) == send(f, ws, ReadyState(ws), Req("create_user", username, 0, 0))
createRoom(f, name) == send(f, ws, ReadyState(ws), Req("create_room", name, 0, 0))
changeUser(f, username) == send(f, ws, ReadyState(ws), Req("login_as", username, 0, 0))

roomExists(roomNameArg) == \E i \in 1..Len(rooms) : rooms[i].name = roomNameArg

\* rooms.find: the first room of the cached list with that name.
getRoomByName(roomNameArg) ==
    rooms[CHOOSE i \in 1..Len(rooms) :
            /\ rooms[i].name = roomNameArg
            /\ \A j \in 1..(i - 1) : rooms[j].name # roomNameArg]

\* The room is set before the requests go out.
enterRoom(f, roomNameArg) ==
    IF ~roomExists(roomNameArg)
    THEN pushMessage(f, T("Raum nicht gefunden: ", roomNameArg), "ERROR", "System", NoId)
    ELSE LET match == getRoomByName(roomNameArg)
             f1 == [f EXCEPT !.roomID = match.id, !.roomName = match.name]
             f2 == pushMessage(f1, T("Zu Raum gewechselt: ", roomNameArg), "INFO", "System", NoId)
             f3 == send(f2, ws, ReadyState(ws), Req("join_room", "", match.id, 0))
         IN IF f3.thrown THEN f3
            ELSE send(f3, ws, ReadyState(ws), Req("get_messages", "", match.id, 0))

\* parseInt on the argument tokens the model submits (NaN for a missing
\* argument or one that does not start with a numeral).
NaN == -999
parseInt(args) ==
    IF Len(args) = 0 THEN NaN
    ELSE CASE args[1] = "1" -> 1
           [] args[1] = "2" -> 2
           [] args[1] = "3" -> 3
           [] args[1] = "0" -> 0
           [] args[1] = "-1" -> -1
           [] args[1] = "2x" -> 2
           [] OTHER -> NaN

\* The while loop of deleteMsg over the log m of the submitting render:
\* msgCount after the loop, or 0 when the loop reads past the start of the
\* log (messages[-1] is undefined and reading its sender throws).
RECURSIVE scanOwn(_, _, _, _)
scanOwn(m, u, relativeMsg, msgCount) ==
    IF relativeMsg <= 0 THEN msgCount
    ELSE IF msgCount + 1 > Len(m) THEN 0
    ELSE LET msg == m[Len(m) - msgCount]
         IN IF msg.sender = u /\ msg.kind \in {"IN", "OUT"}
            THEN scanOwn(m, u, relativeMsg - 1, msgCount + 1)
            ELSE scanOwn(m, u, relativeMsg, msgCount + 1)

deleteMsg_alwaysLatest(f, relativeMsg) ==
    IF relativeMsg <= 0
    THEN pushMessage(f, T("annihilate: parameter must be a positive number and not zero", ""),
                     "ERROR", "System", NoId)
    ELSE LET msgCount == scanOwn(messages, user, 1, 0)
         IN IF msgCount = 0
            THEN throw(f, T("TypeError", ""))
            ELSE send(f, ws, ReadyState(ws),
                      Req("delete_msg", "", roomID, messages[Len(messages) - msgCount + 1].id))

deleteMsg_noRangeCheck(f, relativeMsg) ==
    IF relativeMsg <= 0
    THEN pushMessage(f, T("annihilate: parameter must be a positive number and not zero", ""),
                     "ERROR", "System", NoId)
    ELSE LET msgCount == scanOwn(messages, user, relativeMsg, 0)
         IN IF msgCount = 0
            THEN send(f, ws, ReadyState(ws), Req("delete_msg", "", roomID, NoId))
            ELSE send(f, ws, ReadyState(ws),
                      Req("delete_msg", "", roomID, messages[Len(messages) - msgCount + 1].id))

deleteMsg(f, relativeMsg) ==
    IF relativeMsg <= 0
    THEN pushMessage(f, T("annihilate: parameter must be a positive number and not zero", ""),
                     "ERROR", "System", NoId)
    ELSE LET msgCount == scanOwn(messages, user, relativeMsg, 0)
         IN IF msgCount = 0
            THEN throw(f, T("TypeError", ""))
            ELSE send(f, ws, ReadyState(ws),
                      Req("delete_msg", "", roomID, messages[Len(messages) - msgCount + 1].id))

\* The option loop of COMMANDS.theme.
ThemeOptions == { "-tc", "-bg", "-bc", "-ob", "-hv", "-sc", "-f" }

RECURSIVE themeOptions(_, _, _)
themeOptions(args, i, acc) ==
    IF i > Len(args) THEN acc
    ELSE IF args[i] \in ThemeOptions /\ i + 1 <= Len(args)
    THEN themeOptions(args, i + 2, [acc EXCEPT ![args[i]] = args[i + 1]])
    ELSE themeOptions(args, i + 1, acc)

COMMANDS_theme(args, f) ==
    LET opt == themeOptions(args, 1, [o \in ThemeOptions |-> ""])
        pick(o, old) == IF opt[o] # "" THEN opt[o] ELSE old
    IN IF \A o \in ThemeOptions : opt[o] = ""
       THEN showSystemNotification(f, T("Verwendung: theme [Optionen]", ""))
       ELSE showSystemNotification(
                [f EXCEPT !.themeColors =
                    [ textColor          |-> pick("-tc", themeColors.textColor),
                      bgColor            |-> pick("-bg", themeColors.bgColor),
                      borderColor        |-> pick("-bc", themeColors.borderColor),
                      outerBgColor       |-> pick("-ob", themeColors.outerBgColor),
                      buttonHoverBgColor |-> pick("-hv", themeColors.buttonHoverBgColor),
                      systemTextColor    |-> pick("-sc", themeColors.systemTextColor) ]],
                T("Theme angepasst:", opt))

COMMANDS_theme_save(args, f) ==
    IF Len(args) = 0
    THEN showSystemNotification(f, T("Verwendung: theme save <Themenname>", ""))
    ELSE showSystemNotification(
             [f EXCEPT !.savedThemes =
                 [ n \in (DOMAIN savedThemes) \cup {args[1]} |->
                      IF n = args[1] THEN themeColors ELSE savedThemes[n] ]],
             T("Theme gespeichert: ", args[1]))

COMMANDS_theme_load(args, f) ==
    IF Len(args) = 0
    THEN IF DOMAIN savedThemes = {}
         THEN showSystemNotification(f, T("Keine gespeicherten Themes vorhanden", ""))
         ELSE showSystemNotification(f, T("Gespeicherte Themes:", DOMAIN savedThemes))
    ELSE IF args[1] \notin DOMAIN savedThemes
    THEN showSystemNotification(f, T("Theme nicht gefunden: ", args[1]))
    ELSE showSystemNotification([f EXCEPT !.themeColors = savedThemes[args[1]]],
                                T("Theme geladen: ", args[1]))

COMMANDS_send_echoesOut(args, f) ==
    IF Len(args) = 0 THEN throw(f, T("send: Nachricht fehlt", ""))
    ELSE pushMessage(sendMessage(f, join(args)), T(join(args), ""), "OUT", user, NoId)

COMMANDS_send(args, f) ==
    IF Len(args) = 0 THEN throw(f, T("send: Nachricht fehlt", ""))
    ELSE sendMessage(f, join(args))

COMMANDS_forge(args, f) ==
    IF Len(args) = 0 THEN throw(f, T("forge: Benutzername fehlt", ""))
    ELSE LET f1 == createUser(f, args[1])
         IN IF f1.thrown THEN f1
            ELSE showSystemNotification(
                     pushMessage(f1, T("Erstelle neuen Nutzer ", args[1]), "TEMPINFO", "System", NoId),
                     T("Neuer Nutzer erstellt: ", args[1]))

COMMANDS_impersonate(args, f) ==
    IF Len(args) = 0 THEN throw(f, T("impersonate: Benutzername fehlt", ""))
    ELSE LET f1 == changeUser(f, args[1])
         IN IF f1.thrown THEN f1
            ELSE pushMessage(f1, T("Wechsel zu Nutzer ", args[1]), "TEMPINFO", "System", NoId)

COMMANDS_create_room_noCheck(args, f) ==
    IF Len(args) = 0 THEN throw(f, T("create room: Raumname fehlt", ""))
    ELSE createRoom(f, join(args))

COMMANDS_create_room(args, f) ==
    IF Len(args) = 0 THEN throw(f, T("create room: Raumname fehlt", ""))
    ELSE IF roomExists(join(args)) THEN throw(f, T("Raum existiert bereits: ", join(args)))
    ELSE createRoom(f, join(args))

COMMANDS_accede(args, f) ==
    IF Len(args) = 0 THEN throw(f, T("enter: Raumname fehlt", ""))
    ELSE enterRoom(pushMessage(f, T("Wechsel zu Raum ", args[1]), "TEMPINFO", "System", NoId),
                   args[1])

COMMANDS_annihilate(args, f) ==
    IF parseInt(args) # NaN THEN deleteMsg(f, parseInt(args))
    ELSE throw(f, T("annihilate: parameter not a number", ""))

\* await handler(finalArgs, ctx)
call(handler, args, f) ==
    CASE handler = "h" ->
            pushMessage(f, T("Verfuegbare Befehle: ", ""), "INFO", "System", NoId)
      [] handler = "whoami" ->
            pushMessage(f, T("Aktueller Benutzer: ", user), "INFO", "System", NoId)
      [] handler = "clear" -> pushMessage(f, T("", ""), "CLEAR", "System", NoId)
      [] handler = "clearall" -> pushMessage(f, T("", ""), "CLEAR_ALL", "System", NoId)
      [] handler = "history" -> getHistory(f, ws, ReadyState(ws), roomID)
      [] handler = "roomtour" -> getRooms(f, ws, ReadyState(ws))
      [] handler = "send" -> COMMANDS_send(args, f)
      [] handler = "forge" -> COMMANDS_forge(args, f)
      [] handler = "impersonate" -> COMMANDS_impersonate(args, f)
      [] handler = "create room" -> COMMANDS_create_room(args, f)
      [] handler = "accede" -> COMMANDS_accede(args, f)
      [] handler = "annihilate" -> COMMANDS_annihilate(args, f)
      [] handler = "theme" -> COMMANDS_theme(args, f)
      [] handler = "theme save" -> COMMANDS_theme_save(args, f)
      [] handler = "theme load" -> COMMANDS_theme_load(args, f)
      [] handler = "help" -> showSystemNotification(f, T("helpText", ""))
      [] handler = "exit" ->
            showSystemNotification(f, T("exit command not implemented yet", ""))
      [] handler = "Object" -> f
      [] handler = "Object.prototype" -> throw(f, T("TypeError", ""))

\* The try block of handleCommandLine on the echoed frame.
dispatch(line, f) ==
    LET p == parseCommand(line)
        r == resolve(p.cmd, p.args)
    IN IF p.thrown THEN throw(f, T("Unterminated quote", ""))
       ELSE IF r.handler = undefined THEN throw(f, T("Unbekannter Befehl: ", p.cmd))
       ELSE call(r.handler, r.finalArgs, f)

CanSubmit == ~tornDown /\ nInputs < MaxInputs

CommitCmd_noSave(f) ==
    /\ Commit(f)
    /\ roomID' = f.roomID
    /\ roomName' = f.roomName
    /\ store' = store
    /\ systemNotification' = f.note
    /\ themeColors' = f.themeColors
    /\ savedThemes' = f.savedThemes

\* Write back what a command line may have changed; the effect that saves
\* the session runs after the render.
CommitCmd(f) ==
    /\ Commit(f)
    /\ roomID' = f.roomID
    /\ roomName' = f.roomName
    /\ store' = saveSessionToStorage(user, f.roomID, f.roomName)
    /\ systemNotification' = f.note
    /\ themeColors' = f.themeColors
    /\ savedThemes' = f.savedThemes

\* handleCommandLine(line).  The list of earlier lines kept for the arrow
\* keys (commandHistory, historyIndex) belongs to the input field and is not
\* part of the model.
run(line) ==
    IF isBlank(line)
    THEN UNCHANGED << messages, idRef, sent, nextRequestSilent, roomID,
                      roomName, store, uiVars >>
    ELSE CommitCmd(catch(dispatch(line,
             pushMessage(Frame, T("> ", str(line)), "COMMAND", "System", NoId))))

handleCommandLine(line) ==
    /\ CanSubmit
    /\ run(line)
    /\ nInputs' = nInputs + 1
    /\ ev' = Ev("handleCommandLine", line)
    /\ UNCHANGED << user, rooms, mountUser, mountRoomID, connVars, bootTimers,
                    tornDown, acked, awaiting >>

\* ---------------------------------------------------------------- submission
\* handleCommandLine is an async function: it runs up to `await
\* handler(finalArgs, ctx)` in the event that submitted the line, and what
\* follows the await runs as a continuation.  The event loop runs the
\* continuations that are ready before it takes the next event; the action
\* handleCommandLine above is the call together with its continuation.
handlerOf(line) ==
    LET p == parseCommand(line)
    IN IF isBlank(line) \/ p.thrown THEN undefined
       ELSE resolve(p.cmd, p.args).handler

\* The call gets as far as the await: a handler was found and has returned.
reachesAwait(line) ==
    /\ handlerOf(line) # undefined
    /\ ~dispatch(line, Frame).thrown

awaitsLater_whileRequesting(handler) == handler \in { "send", "forge" }

\* The handlers that wait for a later event before they return: none (help
\* is async and awaits nothing, the others are synchronous).
awaitsLater(handler) == handler \in { }

\* No continuation is ready to run.
MicrotasksDone == \A i \in 1..Len(awaiting) : awaitsLater(awaiting[i])

StartLine(name, line) ==
    /\ ~tornDown
    /\ nInputs < MaxSubmits
    /\ MicrotasksDone
    /\ run(line)
    /\ awaiting' = IF reachesAwait(line) THEN Append(awaiting, handlerOf(line))
                   ELSE awaiting
    /\ nInputs' = nInputs + 1
    /\ ev' = Ev(name, line)
    /\ UNCHANGED << user, rooms, mountUser, mountRoomID, connVars, bootTimers,
                    tornDown, acked >>

\* onKeyDown, Enter
onKeyDown(line) == StartLine("onKeyDown", line)

\* handleSendMessage (the send button)
handleSendMessage(line) == ~isBlank(line) /\ StartLine("handleSendMessage", line)

\* The continuation of the oldest suspended call: the await returns and the
\* function ends.
Resume ==
    /\ awaiting # << >>
    /\ ~awaitsLater(Head(awaiting))
    /\ awaiting' = Tail(awaiting)
    /\ ev' = Ev("resume", 0)
    /\ UNCHANGED << messages, idRef, sessionVars, mountUser, mountRoomID, uiVars,
                    connVars, nextRequestSilent, bootTimers, tornDown, sent,
                    acked, nInputs >>

\* A command and its arguments as the line a user types.
RECURSIVE spaced(_)
spaced(args) == IF args = << >> THEN << >> ELSE << Blank, args[1] >> \o spaced(Tail(args))

CmdH == handleCommandLine(<< "h" >>)
CmdWhoami == handleCommandLine(<< "whoami" >>)
CmdClear == handleCommandLine(<< "clear" >>)
CmdClearAll == handleCommandLine(<< "clearall" >>)
CmdHistory == handleCommandLine(<< "history" >>)
CmdRoomtour == handleCommandLine(<< "roomtour" >>)
CmdSend(args) == handleCommandLine(<< "send" >> \o spaced(args))
CmdForge(args) == handleCommandLine(<< "forge" >> \o spaced(args))
CmdImpersonate(args) == handleCommandLine(<< "impersonate" >> \o spaced(args))
CmdCreateRoom(args) == handleCommandLine(<< "create", Blank, "room" >> \o spaced(args))
CmdAccede(args) == handleCommandLine(<< "accede" >> \o spaced(args))
CmdAnnihilate(args) == handleCommandLine(<< "annihilate" >> \o spaced(args))

\* ------------------------------------------------------------ specifications
\* The session: transport lifecycle, everything the server can deliver and
\* the commands that talk to the server.
Next ==
    \/ \E s \in Sockets : SockOpen(s)
    \/ \E s \in Sockets : SockClose(s)
    \/ ReconnectTimer
    \/ BootTimer
    \/ \E result \in RoomLists : ReplyGetRooms(result)
    \/ \E err \in BOOLEAN : ReplyMsg(err)
    \/ \E err \in BOOLEAN, result \in HistoryResults : ReplyGetMessages(err, result)
    \/ \E err \in BOOLEAN : ReplyJoinRoom(err)
    \/ \E err \in BOOLEAN : ReplyLoginAs(err)
    \/ \E err \in BOOLEAN : ReplyCreateUser(err)
    \/ \E err \in BOOLEAN : ReplyCreateRoom(err)
    \/ \E err \in BOOLEAN : ReplyDeleteMsg(err)
    \/ \E err \in BOOLEAN : ReplyNameofUser(err)
    \/ \E id \in ServerIds : BcNewMessage(id, "alice")
    \/ BcRoomCreated("r1")
    \/ BcRoomUpdated
    \/ \E id \in {1, 3} : BcMessageDeleted(id)
    \/ CmdHistory
    \/ CmdRoomtour
    \/ CmdSend(<< "hi" >>)
    \/ CmdForge(<< "bob" >>)
    \/ CmdImpersonate(<< "bob" >>)
    \/ CmdCreateRoom(<< "r2" >>)
    \/ CmdAccede(<< "r2" >>)
    \/ CmdAnnihilate(<< "1" >>)

Spec == Init /\ [][Next]_vars

\* One transport from its open on, staying up: the server answers and
\* broadcasts, the user submits commands.
OnlineNext ==
    \/ \E s \in Sockets : SockOpen(s)
    \/ BootTimer
    \/ \E result \in RoomLists : ReplyGetRooms(result)
    \/ \E err \in BOOLEAN : ReplyMsg(err)
    \/ \E err \in BOOLEAN, result \in HistoryResults : ReplyGetMessages(err, result)
    \/ \E err \in BOOLEAN : ReplyJoinRoom(err)
    \/ \E err \in BOOLEAN : ReplyLoginAs(err)
    \/ \E err \in BOOLEAN : ReplyCreateUser(err)
    \/ \E err \in BOOLEAN : ReplyCreateRoom(err)
    \/ \E err \in BOOLEAN : ReplyDeleteMsg(err)
    \/ \E err \in BOOLEAN : ReplyNameofUser(err)
    \/ \E id \in ServerIds : BcNewMessage(id, "alice")
    \/ BcRoomCreated("r1")
    \/ BcRoomUpdated
    \/ \E id \in {1, 3} : BcMessageDeleted(id)
    \/ CmdHistory
    \/ CmdRoomtour
    \/ CmdSend(<< "hi" >>)
    \/ CmdForge(<< "bob" >>)
    \/ CmdImpersonate(<< "bob" >>)
    \/ CmdCreateRoom(<< "r2" >>)
    \/ CmdAccede(<< "r2" >>)
    \/ CmdAnnihilate(<< "1" >>)

OnlineSpec == Init /\ [][OnlineNext]_vars

\* The transport and the unmount cleanup, with the server answering the
\* requests of the bootstrap.
ConnNext ==
    \/ \E s \in Sockets : SockOpen(s)
    \/ \E s \in Sockets : SockClose(s)
    \/ ReconnectTimer
    \/ BootTimer
    \/ Teardown
    \/ \E result \in RoomLists : ReplyGetRooms(result)
    \/ \E err \in BOOLEAN, result \in HistoryResults : ReplyGetMessages(err, result)
    \/ \E err \in BOOLEAN : ReplyJoinRoom(err)
    \/ \E err \in BOOLEAN : ReplyLoginAs(err)
    \/ \E err \in BOOLEAN : ReplyNameofUser(err)

ConnSpec == Init /\ [][ConnNext]_vars

\* The event loop runs every timer that is due.
LiveSpec ==
    /\ Init
    /\ [][ConnNext]_vars
    /\ WF_vars(ReconnectTimer)
    /\ WF_vars(BootTimer)

\* The message log on its own: pushMessage applied to every log it can build,
\* one call per step, and the commands that only touch the log.
LogKinds == {"IN", "INFO", "ERROR", "COMMAND", "TEMPINFO", "CLEAR", "CLEAR_ALL"}
Clears   == {"CLEAR", "CLEAR_ALL"}

LogPush(kind, id) ==
    /\ (kind = "IN") = (id # NoId)
    /\ LET f == pushMessage(Frame, T("hi", ""), kind,
                            IF kind = "IN" THEN "alice" ELSE "System", id)
       IN /\ Len(f.messages) <= MaxLogLen
          /\ f.idRef <= MaxLocalId + 1
          /\ messages' = f.messages
          /\ idRef' = f.idRef
          /\ ev' = Ev(kind, Len(messages) - Len(f.messages))
    /\ UNCHANGED << sessionVars, mountUser, mountRoomID, uiVars, awaiting, connVars,
                    nextRequestSilent, bootTimers, tornDown, sent, acked,
                    nInputs >>

LogNext ==
    \/ \E kind \in LogKinds, id \in ServerIds \cup {NoId} : LogPush(kind, id)
    \/ CmdClear
    \/ CmdClearAll
    \/ CmdH
    \/ CmdWhoami

LogSpec == Init /\ [][LogNext]_vars

\* The state after the first connection has opened and the server has
\* answered the whole bootstrap, with `result` as the history of the room and
\* `inputs` as the count the command lines and broadcasts start from.
ReadyWith(saved, result, inputs) ==
    /\ user = loadUser(saved)
    /\ roomID = loadRoomID(saved)
    /\ roomName = loadRoomName(saved)
    /\ mountUser = loadUser(saved)
    /\ mountRoomID = loadRoomID(saved)
    /\ store = saveSessionToStorage(loadUser(saved), loadRoomID(saved), loadRoomName(saved))
    /\ rooms = ServerRooms
    /\ messages = result
    /\ idRef = IF loadUser(saved) = "guest" THEN 3 ELSE 4
    /\ ws = 1
    /\ sock = [s \in Sockets |-> IF s = 1 THEN "OPEN" ELSE "NONE"]
    /\ handlers = {1}
    /\ nSock = 1
    /\ onlineFlag = TRUE
    /\ nextRequestSilent = FALSE
    /\ reconnectTimeoutRef = NoTimer
    /\ timers = {}
    /\ nTimer = 0
    /\ bootTimers = 0
    /\ tornDown = FALSE
    /\ sent = << Req("get_rooms", "", 0, 0) >>
              \o (IF loadUser(saved) = "guest" THEN << >>
                  ELSE << Req("login_as", loadUser(saved), 0, 0) >>)
              \o << Req("join_room", "", loadRoomID(saved), 0),
                    Req("get_messages", "", loadRoomID(saved), 0) >>
    /\ acked = Len(sent)
    /\ nInputs = inputs
    /\ systemNotification = ""
    /\ themeColors = defaultTheme
    /\ savedThemes = << >>
    /\ awaiting = << >>
    /\ ev = Ev("get_messages", 0)

Ready(saved, result) == ReadyWith(saved, result, 0)

InRoom == { saved \in InitialStores : saved # NoSnapshot }

\* Relative deletion: annihilate on every room history of up to MaxHistory
\* messages of two senders (MessageID = position).
RECURSIVE Histories(_)
Histories(n) ==
    IF n = 0 THEN { << >> }
    ELSE Histories(n - 1) \cup
         { Append(h, ServerEntry(n, u, 0)) : h \in { g \in Histories(n - 1) : Len(g) = n - 1 },
                                             u \in UserNames }

AnnihilateArgs == { "1", "2", "3", "0", "-1", "2x", "x" }
AnnihilateLines ==
    { << "annihilate" >> } \cup { << "annihilate", Blank, a >> : a \in AnnihilateArgs }

AnnihilateInit == \E saved \in InRoom, result \in Histories(MaxHistory) : Ready(saved, result)
AnnihilateNext == \E line \in AnnihilateLines : handleCommandLine(line)
AnnihilateSpec == AnnihilateInit /\ [][AnnihilateNext]_vars

\* The tokenizer: every line of up to MaxLineLen pieces, alone and as the
\* arguments of send, submitted to a connected engine.
TokenPieces == { "a", Blank, "\"", "'" }

RECURSIVE SeqsUpTo(_, _)
SeqsUpTo(S, n) ==
    IF n = 0 THEN { << >> }
    ELSE SeqsUpTo(S, n - 1) \cup
         { Append(q, x) : q \in { p \in SeqsUpTo(S, n - 1) : Len(p) = n - 1 }, x \in S }

TokenLines == SeqsUpTo(TokenPieces, MaxLineLen)

ExampleLine == << "send", Blank, "\"", "a", Blank, "b", "\"", Blank, "c" >>

ParseLines ==
    TokenLines \cup { << "send", Blank >> \o t : t \in TokenLines } \cup { ExampleLine }

ParseInit ==
    Ready(Snapshot("alice", 1, "r1"),
          << ServerEntry(1, "alice", 1), ServerEntry(2, "bob", 0) >>)
ParseNext == \E line \in ParseLines : handleCommandLine(line)
ParseSpec == ParseInit /\ [][ParseNext]_vars

\* Quoting: every argument text of up to MaxArgLen pieces handed to send, one
\* line in a run (the tokenizer keeps nothing from one line to the next).
QuotePieces == TokenPieces \cup { "b" }

JoinedLine == << "send", Blank, "ab", "\"", "c", Blank, "d", "\"", "ef" >>

QuoteLines ==
    { << "send", Blank >> \o t : t \in SeqsUpTo(QuotePieces, MaxArgLen) } \cup { JoinedLine }

QuoteInit == ParseInit
QuoteNext == \E line \in QuoteLines : nInputs = 0 /\ handleCommandLine(line)
QuoteSpec == QuoteInit /\ [][QuoteNext]_vars

\* The registry: every command bare and with arguments, names that are not
\* registered, and names that Object.prototype answers for, submitted while
\* the first connection is still being made or after its bootstrap.
BareLines ==
    { << "h" >>, << "whoami" >>, << "clear" >>, << "clearall" >>, << "history" >>,
      << "send" >>, << "forge" >>, << "impersonate" >>, << "create", Blank, "room" >>,
      << "accede" >>, << "roomtour" >>, << "annihilate" >>, << "theme" >>,
      << "theme", Blank, "save" >>, << "theme", Blank, "load" >>, << "help" >>,
      << "exit" >> }

ArgLines ==
    { << "send", Blank, "hi" >>, << "send", Blank, "hi", Blank, "there" >>,
      << "forge", Blank, "bob" >>, << "impersonate", Blank, "bob" >>,
      << "create", Blank, "room", Blank, "r1" >>,
      << "create", Blank, "room", Blank, "r3" >>,
      << "accede", Blank, "r2" >>, << "accede", Blank, "r3" >>,
      << "annihilate", Blank, "1" >>,
      << "theme", Blank, "save", Blank, "x" >>,
      << "theme", Blank, "load", Blank, "x" >>,
      << "theme", Blank, "-tc", Blank, "red" >>,
      << "theme", Blank, "x" >>, << "whoami", Blank, "x" >> }

UnknownLines ==
    { << "bogus" >>, << "bogus", Blank, "x" >>, << "create" >>,
      << "create", Blank, "x" >>, << "room" >>, << "save", Blank, "x" >>,
      << "Send" >>, << "constructor" >>, << "__proto__" >> }

CommandLines == BareLines \cup ArgLines \cup UnknownLines

DispatchInit ==
    \/ Init
    \/ \E saved \in InRoom, result \in HistoryLogs : Ready(saved, result)
DispatchNext == \E line \in CommandLines : handleCommandLine(line)
DispatchSpec == DispatchInit /\ [][DispatchNext]_vars

\* Everything a server can put on the transport: broadcasts, replies,
\* messages with both discriminators, with names the client does not know,
\* and with an empty event name.
Msg(event, response, error, id) ==
    [ event |-> event, response |-> response, error |-> error, id |-> id ]

Inbound ==
    { Msg(e, "undefined", FALSE, 1) : e \in EventNames \cup { "bogus" } }
    \cup { Msg("undefined", r, err, 1) : r \in ResponseNames, err \in BOOLEAN }
    \cup { Msg("undefined", r, FALSE, 1) : r \in { "undefined", "bogus" } }
    \cup { Msg(e, r, FALSE, 1) : e \in { "new_message", "room_updated", "" },
                                 r \in { "get_rooms", "login_as", "create_room" } }
    \cup { Msg("bogus", "get_rooms", FALSE, 1) }

\* The mount that found alice in room r1 persisted.
InboundInit ==
    /\ Init
    /\ store = Snapshot("alice", 1, "r1")

InboundNext ==
    \/ \E s \in Sockets : SockOpen(s)
    \/ BootTimer
    \/ \E data \in Inbound : onmessage(data)
    \/ CmdForge(<< "bob" >>)
    \/ CmdCreateRoom(<< "r3" >>)

InboundSpec == InboundInit /\ [][InboundNext]_vars

\* Submission: lines typed one after the other, by Enter or by the send
\* button, on a connected engine.
SubmitLines ==
    { << >>, << "help" >>, << "whoami" >>, << "send" >>, << "send", Blank, "hi" >>,
      << "forge", Blank, "bob" >>, << "bogus" >> }

SubmitInit == \E saved \in InRoom, result \in HistoryLogs : Ready(saved, result)
SubmitNext ==
    \/ \E line \in SubmitLines : onKeyDown(line)
    \/ \E line \in SubmitLines : handleSendMessage(line)
    \/ Resume
SubmitSpec == SubmitInit /\ [][SubmitNext]_vars

\* The transport with its close and reconnect, the unmount cleanup, the
\* replies of the bootstrap, and a command, its reply and a broadcast in
\* between.
LifecycleNext ==
    \/ ConnNext
    \/ \E err \in BOOLEAN : ReplyMsg(err)
    \/ BcRoomUpdated
    \/ CmdSend(<< "hi" >>)

LifecycleSpec == Init /\ [][LifecycleNext]_vars

\* Commands in every connection state: a session from startup or after its
\* bootstrap, whose transport closes, reconnects and opens again (the unmount
\* cleanup included), with
\* every command that talks to the server submitted in between; the server
\* stays silent.
OfflineInit ==
    \/ Init
    \/ \E saved \in InRoom, result \in HistoryLogs : Ready(saved, result)

OfflineNext ==
    \/ \E s \in Sockets : SockOpen(s)
    \/ \E s \in Sockets : SockClose(s)
    \/ ReconnectTimer
    \/ BootTimer
    \/ Teardown
    \/ CmdSend(<< "hi" >>)
    \/ CmdForge(<< "bob" >>)
    \/ CmdImpersonate(<< "bob" >>)
    \/ CmdCreateRoom(<< "r3" >>)
    \/ CmdAccede(<< "r2" >>)
    \/ CmdHistory
    \/ CmdRoomtour
    \/ CmdAnnihilate(<< "1" >>)

OfflineSpec == OfflineInit /\ [][OfflineNext]_vars

\* The room history: the bootstrap of a session and the history command,
\* answered with lists in either order, with an element whose optional fields
\* are left out, with the empty list and with no list at all, while
\* broadcasts add entries in between and send hi is submitted and answered.
HistoryReplies ==
    HistoryResults \cup
    { << ServerMsg(2, "bob", 0), ServerMsg(1, "alice", 1) >>,
      << [ MessageID |-> 2, Text |-> undefined, Name |-> undefined,
           Time |-> undefined, ReadBy |-> NoReadBy ] >> }

HistoryNext ==
    \/ \E s \in Sockets : SockOpen(s)
    \/ BootTimer
    \/ ReplyGetRooms(ServerRooms)
    \/ \E err \in BOOLEAN : ReplyLoginAs(err)
    \/ \E err \in BOOLEAN : ReplyJoinRoom(err)
    \/ \E err \in BOOLEAN, result \in HistoryReplies : ReplyGetMessages(err, result)
    \/ \E id \in ServerIds : BcNewMessage(id, "alice")
    \/ CmdHistory
    \/ CmdSend(<< "hi" >>)
    \/ \E err \in BOOLEAN : ReplyMsg(err)

HistorySpec == Init /\ [][HistoryNext]_vars

\* Deletion over time: alice in a room whose history holds the messages 1
\* and 2; the server hands the next ids to the messages that follow.  Up to
\* MaxDeletes command lines and broadcasts in a run.
NewIds == {3, 5}

\* The server has delivered message id to this session (the server announces
\* a message once and deletes only messages it has announced).
Delivered(id) == \E i \in 1..Len(messages) : messages[i].id = id /\ messages[i].sender # "System"

DeleteInit ==
    ReadyWith(Snapshot("alice", 1, "r1"),
              history(<< ServerMsg(1, "alice", 1), ServerMsg(2, "bob", 0) >>),
              MaxInputs - MaxDeletes)

DeleteNext ==
    \/ CmdWhoami
    \/ CmdAnnihilate(<< "1" >>)
    \/ \E err \in BOOLEAN : ReplyDeleteMsg(err)
    \/ \E id \in NewIds : ~Delivered(id) /\ BcNewMessage(id, "alice")
    \/ \E id \in ServerIds \cup NewIds : Delivered(id) /\ BcMessageDeleted(id)

DeleteSpec == DeleteInit /\ [][DeleteNext]_vars

\* The session: from every stored snapshot, one transport that opens and
\* stays up, the commands that change identity or room, and the replies to
\* them and to the bootstrap.
SessionNext ==
    \/ \E s \in Sockets : SockOpen(s)
    \/ BootTimer
    \/ ReplyGetRooms(ServerRooms)
    \/ \E err \in BOOLEAN, result \in HistoryResults : ReplyGetMessages(err, result)
    \/ \E err \in BOOLEAN : ReplyJoinRoom(err)
    \/ \E err \in BOOLEAN : ReplyLoginAs(err)
    \/ \E err \in BOOLEAN : ReplyCreateUser(err)
    \/ \E err \in BOOLEAN : ReplyCreateRoom(err)
    \/ CmdForge(<< "bob" >>)
    \/ CmdImpersonate(<< "bob" >>)
    \/ CmdCreateRoom(<< "r3" >>)
    \/ CmdAccede(<< "r2" >>)

SessionSpec == Init /\ [][SessionNext]_vars

TypeOK ==
    /\ ws \in Sockets \cup {NoSocket}
    /\ idRef \in Nat
    /\ onlineFlag \in BOOLEAN
    /\ nextRequestSilent \in BOOLEAN
    /\ \A i \in 1..Len(messages) : messages[i].kind \in Kinds \ Clears

\* ===================================================================== claims

IsLast(m, text, kind) ==
    /\ Len(m) > 0
    /\ m[Len(m)].text = text
    /\ m[Len(m)].kind = kind

Count(m, text) == Cardinality({ i \in 1..Len(m) : m[i].text = text })

HasFunc(q, func) == \E i \in 1..Len(q) : q[i].func = func

\* Replies that report through tryPushMessage.
Reports(func, err) ==
    \/ func \in {"get_rooms", "login_as", "create_user", "delete_msg"}
    \/ func \in {"msg", "join_room"} /\ err

ReplyStep(func, err) ==
    CASE func = "get_rooms" -> \E result \in RoomLists : ReplyGetRooms(result)
      [] func = "msg" -> ReplyMsg(err)
      [] func = "get_messages" -> \E result \in HistoryResults : ReplyGetMessages(err, result)
      [] func = "join_room" -> ReplyJoinRoom(err)
      [] func = "login_as" -> ReplyLoginAs(err)
      [] func = "create_user" -> ReplyCreateUser(err)
      [] func = "create_room" -> ReplyCreateRoom(err)
      [] func = "delete_msg" -> ReplyDeleteMsg(err)
      [] func = "nameof_user" -> ReplyNameofUser(err)

Responses == {"get_rooms", "msg", "get_messages", "join_room", "login_as",
              "create_user", "create_room", "delete_msg", "nameof_user"}

Disconnected == T("Disconnected from Shello Server.", "")

\* C2: a transport close that follows a successful open appends exactly one
\* INFO "disconnected" entry and schedules exactly one reconnect timer; a
\* close of a transport that never opened appends no "disconnected" entry.
C2_ReconnectAccounting ==
    [][\A s \in Sockets :
          SockClose(s) =>
             /\ sock[s] = "OPEN" =>
                   /\ Count(messages', Disconnected) = Count(messages, Disconnected) + 1
                   /\ IsLast(messages', Disconnected, "INFO")
                   /\ idRef' = idRef + 1
                   /\ Cardinality(timers') = Cardinality(timers) + 1
             /\ sock[s] = "CONNECTING" => messages' = messages]_vars

\* A connection that had opened was just closed: the notice is the last log
\* entry and one reconnect timer is pending.
C2_Witness ==
    /\ ev = Ev("close", 1)
    /\ IsLast(messages, Disconnected, "INFO")
    /\ Cardinality(timers) = 1

\* C3: after the unmount cleanup no reconnect timer is pending and no new
\* transport is ever created.
C3_NoReconnectAfterTeardown ==
    [][(tornDown' => timers' = {}) /\ (tornDown => nSock' = nSock)]_vars

\* C4: while the engine is mounted it is never without both a transport and
\* a pending reconnect timer, and whenever it has no transport a new
\* connection attempt eventually starts (or the engine is torn down).
C4_AlwaysRetries ==
    /\ []((~tornDown /\ ws = NoSocket) => timers # {})
    /\ ((~tornDown /\ ws = NoSocket) ~> (ws # NoSocket \/ tornDown))

\* The reconnect timer of a closed connection has fired and a second
\* transport is connecting.
C4_Witness ==
    ev.name = "reconnect" /\ ws = 2 /\ sock[1] = "CLOSED" /\ ~tornDown

Connected == T("Connected to Shello Server.", "")

\* C5: every transition Connecting -> Connected appends the INFO "connected"
\* entry, sets PendingSuppression and puts get_rooms on the transport; the
\* first request of every connection is get_rooms.
C5_OpenBootstrap ==
    /\ [][\A s \in Sockets :
            SockOpen(s) =>
               /\ onlineFlag'
               /\ IsLast(messages', Connected, "INFO")
               /\ Count(messages', Connected) = Count(messages, Connected) + 1
               /\ nextRequestSilent'
               /\ HasFunc(sent', "get_rooms")]_vars
    /\ [](sent # << >> => sent[1].func = "get_rooms")

\* A connection has opened and a second request has followed get_rooms.
C5_Witness ==
    /\ onlineFlag
    /\ Len(sent) >= 2
    /\ sent[1].func = "get_rooms"
    /\ nSock = 2

Persisted == store.user # "guest" /\ store.roomID > 0

\* C6: on a connection that opens while an identity and a room are persisted,
\* login_as goes out in the open step, before the deferred join_room, and
\* the deferred step emits join_room followed by get_messages.
C6_BootstrapOrdering ==
    [][/\ \A s \in Sockets :
             (SockOpen(s) /\ Persisted) =>
                /\ HasFunc(sent', "login_as")
                /\ ~HasFunc(sent', "join_room")
                /\ bootTimers' = bootTimers + 1
       /\ (BootTimer /\ sent' # sent) =>
             /\ Len(sent') = Len(sent) + 2
             /\ sent'[Len(sent) + 1].func = "join_room"
             /\ sent'[Len(sent) + 2].func = "get_messages"]_vars

\* C7: on every transition Connecting -> Connected the login_as request
\* carries the identity that is persisted at that moment, and the deferred
\* join_room / get_messages are scheduled for the persisted room.
C7_BootstrapUsesPersisted ==
    [][\A s \in Sockets :
          SockOpen(s) =>
             /\ store.user # "guest" =>
                   \E i \in 1..Len(sent') : sent'[i] = Req("login_as", store.user, 0, 0)
             /\ \A i \in 1..Len(sent') :
                   sent'[i].func = "login_as" => sent'[i].str = store.user
             /\ store.roomID > 0 =>
                   bootTimers' = bootTimers + 1 /\ mountRoomID = store.roomID]_vars

Kept(kind, e) == ~(kind \in {"INFO", "IN"} /\ e.kind \in {"COMMAND", "ERROR", "TEMPINFO"})

\* C8: appending an entry of kind INFO or IN removes every COMMAND, ERROR and
\* TEMPINFO entry and keeps the others in order, followed by the new entry;
\* appending an entry of another kind removes nothing.
C8_Eviction ==
    [][\A kind \in LogKinds \ Clears, id \in ServerIds \cup {NoId} :
          LogPush(kind, id) =>
             LET kept == SelectSeq(messages, LAMBDA e : Kept(kind, e))
             IN /\ Len(messages') = Len(kept) + 1
                /\ SubSeq(messages', 1, Len(kept)) = kept
                /\ messages'[Len(messages')].kind = kind
                /\ messages'[Len(messages')].id = (IF id = NoId THEN idRef ELSE id)
                /\ kind \notin {"INFO", "IN"} => kept = messages]_vars

\* An IN entry was appended to a log that held transient entries and others:
\* the transient ones are gone, the others are still there.
C8_Witness ==
    /\ ev = Ev("IN", 1)
    /\ Len(messages) = 2
    /\ messages[1].kind = "INFO"
    /\ messages[2].kind = "IN"

OnlyIn(m) == SelectSeq(m, LAMBDA e : e.kind = "IN")

\* C9: CLEAR (pushMessage or the clear command) leaves exactly the IN entries
\* in order, CLEAR_ALL (pushMessage or the clearall command) leaves the log
\* empty, neither appends an entry, and a second application changes nothing.
C9_Clear ==
    [][/\ (LogPush("CLEAR", NoId) \/ CmdClear) =>
             /\ messages' = OnlyIn(messages)
             /\ pushMessage([Frame EXCEPT !.messages = messages'],
                            T("", ""), "CLEAR", "System", NoId).messages = messages'
       /\ (LogPush("CLEAR_ALL", NoId) \/ CmdClearAll) =>
             /\ messages' = << >>
             /\ pushMessage([Frame EXCEPT !.messages = messages'],
                            T("", ""), "CLEAR_ALL", "System", NoId).messages = messages']_vars

\* CLEAR has just removed two entries and left an IN entry behind.
C9_Witness ==
    ev = Ev("CLEAR", 2) /\ Len(messages) = 1 /\ messages[1].kind = "IN"

\* C10: a message_deleted broadcast for an id in the log replaces the text of
\* the (first) entry with that id by the placeholder and makes it INFO; the
\* length of the log, the position and id of the entry and every other entry
\* stay as they were; for an id that is not in the log nothing changes.
C10_Tombstone ==
    [][\A id \in ServerIds \cup {3} :
          BcMessageDeleted(id) =>
             IF \E i \in 1..Len(messages) : messages[i].id = id
             THEN /\ Len(messages') = Len(messages)
                  /\ \E i \in 1..Len(messages) :
                        /\ messages[i].id = id
                        /\ messages'[i].id = id
                        /\ messages'[i].text = Deleted
                        /\ messages'[i].kind = "INFO"
                        /\ messages'[i].sender = messages[i].sender
                        /\ \A j \in 1..Len(messages) : j # i => messages'[j] = messages[j]
             ELSE messages' = messages]_vars

\* An entry of the server's history has just been tombstoned in place, with
\* another history entry after it.
C10_Witness ==
    /\ ev = Ev("message_deleted", 1)
    /\ Len(messages) >= 2
    /\ messages[1] = [ServerEntry(1, "alice", 1) EXCEPT !.text = Deleted, !.kind = "INFO"]
    /\ messages[2] = ServerEntry(2, "bob", 0)

Online == ReadyState(ws) = "OPEN"

\* The entries deleteMsg counts: sent by the current identity, of a chat kind.
OwnChat(m, u) == SelectSeq(m, LAMBDA e : e.sender = u /\ e.kind \in {"IN", "OUT"})

Numeral(N) == CASE N = 1 -> "1" [] N = 2 -> "2" [] N = 3 -> "3"

\* C11: while connected, with at least N (N >= 1) entries in the log whose
\* sender is the current identity and whose kind is IN or OUT, annihilate N
\* places exactly one request on the transport, a delete_msg whose
\* message_id is the id of the N-th such entry counted from the end.
C11_RelativeDeletion ==
    [][\A N \in 1..3 :
          (/\ handleCommandLine(<< "annihilate", Blank, Numeral(N) >>)
           /\ Online
           /\ Len(OwnChat(messages, user)) >= N)
          => LET own == OwnChat(messages, user)
             IN /\ Len(sent') = Len(sent) + 1
                /\ sent'[Len(sent')].func = "delete_msg"
                /\ sent'[Len(sent')].message_id = own[Len(own) - N + 1].id]_vars

\* With the log [own#1, other#2, own#3], annihilate 2 has asked for the
\* deletion of id 1.
C11_Witness ==
    /\ ev = Ev("handleCommandLine", << "annihilate", Blank, "2" >>)
    /\ Len(messages) = 4
    /\ messages[1].id = 1 /\ messages[1].sender = user
    /\ messages[2].id = 2 /\ messages[2].sender # user
    /\ messages[3].id = 3 /\ messages[3].sender = user
    /\ sent[Len(sent)].func = "delete_msg"
    /\ sent[Len(sent)].message_id = 1

\* C12: annihilate N when the log holds fewer than N own chat entries (the
\* empty log included) appends an ERROR entry after the echo of the line and
\* places no request on the transport.
C12_OutOfRange ==
    [][\A N \in 1..3 :
          (/\ handleCommandLine(<< "annihilate", Blank, Numeral(N) >>)
           /\ Len(OwnChat(messages, user)) < N)
          => /\ sent' = sent
             /\ Len(messages') = Len(messages) + 2
             /\ messages'[Len(messages')].kind = "ERROR"
             /\ SubSeq(messages', 1, Len(messages)) = messages]_vars

\* annihilate 3 on a log with two own entries has failed.
C12_Witness ==
    /\ ev = Ev("handleCommandLine", << "annihilate", Blank, "3" >>)
    /\ Len(OwnChat(messages, user)) = 2
    /\ messages[Len(messages)].kind = "ERROR"
    /\ sent[Len(sent)].func # "delete_msg"

\* C13: annihilate with an argument that is not a positive integer (missing,
\* non-numeric, zero, negative, a numeral followed by other characters)
\* appends an ERROR entry and places no delete_msg request on the transport.
C13_BadArguments ==
    [][\A line \in { << "annihilate" >> } \cup
                    { << "annihilate", Blank, a >> : a \in {"x", "0", "-1", "2x"} } :
          handleCommandLine(line)
          => /\ sent' = sent
             /\ messages'[Len(messages')].kind = "ERROR"]_vars

\* The quote character that is open in front of piece i of a line ("" when
\* piece i is outside quotes).
RECURSIVE QuoteAt(_, _)
QuoteAt(line, i) ==
    IF i = 1 THEN ""
    ELSE LET q == QuoteAt(line, i - 1)
             ch == line[i - 1]
         IN IF q = "" THEN (IF ch \in Quotes THEN ch ELSE "")
            ELSE IF ch = q THEN "" ELSE q

\* Piece i is content: inside a span and not the quote that ends it, or
\* outside and neither whitespace nor a quote.
IsContent(line, i) ==
    IF QuoteAt(line, i) # "" THEN line[i] # QuoteAt(line, i)
    ELSE line[i] \notin Quotes \cup {Blank}

ContentUpTo(line, i) == Cardinality({ j \in 1..i : IsContent(line, j) })

RECURSIVE ContentOf(_, _)
ContentOf(line, i) ==
    IF i = 0 THEN << >>
    ELSE IF IsContent(line, i) THEN Append(ContentOf(line, i - 1), line[i])
    ELSE ContentOf(line, i - 1)

RECURSIVE Flatten(_)
Flatten(ws_) == IF ws_ = << >> THEN << >> ELSE ws_[1] \o Flatten(Tail(ws_))

\* Numbers of content pieces at which one word ends and the next begins.
RECURSIVE Boundaries(_)
Boundaries(ws_) ==
    IF ws_ = << >> THEN {0}
    ELSE {0} \cup { Len(ws_[1]) + b : b \in Boundaries(Tail(ws_)) }

Unterminated(line) == QuoteAt(line, Len(line) + 1) # ""

Submitted == ev.name = "handleCommandLine"

\* C14: for a line whose quotes are closed, the words are the content pieces
\* of the line in input order; whitespace outside quotes separates words;
\* whatever stands inside one quoted span (whitespace and the other quote
\* character included) stays together in one word; the first word is the
\* command and the others are the arguments in order.  send "a b" c gives
\* the command send with the arguments "a b" and c, and send with arguments
\* places them, joined by blanks, on the transport.
C14_Tokenizer ==
    [][(Submitted' /\ ~Unterminated(ev'.n)) =>
          LET line == ev'.n
              w == words(line).args
              p == parseCommand(line)
          IN /\ Flatten(w) = ContentOf(line, Len(line))
             /\ \A i \in 1..Len(line) :
                   (QuoteAt(line, i) = "" /\ line[i] = Blank)
                      => ContentUpTo(line, i) \in Boundaries(w)
             /\ \A i \in 1..(Len(line) - 1) :
                   (/\ QuoteAt(line, i) # "" /\ IsContent(line, i)
                    /\ IsContent(line, i + 1))
                      => ContentUpTo(line, i) \notin Boundaries(w)
             /\ ~p.thrown
             /\ IF w = << >> THEN p.cmd = "" /\ p.args = << >>
                ELSE << p.cmd >> \o p.args = [ i \in 1..Len(w) |-> str(w[i]) ]
             /\ line = ExampleLine => p.cmd = "send" /\ p.args = << "a b", "c" >>
             /\ (p.cmd = "send" /\ p.args # << >>) =>
                   sent' = Append(sent, Req("msg", join(p.args), roomID, 0))]_vars

\* send "a b" c has put the message "a b c" on the transport.
C14_Witness ==
    /\ ev = Ev("handleCommandLine", ExampleLine)
    /\ sent[Len(sent)] = Req("msg", "a b c", roomID, 0)

\* C15: a line that ends inside a quote runs no handler: nothing is placed on
\* the transport, identity, room, room list, stored session, theme and
\* notification stay as they were, and the log gains the echo of the line
\* and one ERROR entry reporting the unterminated quote.
C15_UnterminatedQuote ==
    [][(Submitted' /\ Unterminated(ev'.n)) =>
          /\ sent' = sent
          /\ UNCHANGED << sessionVars, uiVars, nextRequestSilent >>
          /\ Len(messages') = Len(messages) + 2
          /\ SubSeq(messages', 1, Len(messages)) = messages
          /\ messages'[Len(messages) + 1].kind = "COMMAND"
          /\ messages'[Len(messages) + 2].kind = "ERROR"
          /\ messages'[Len(messages) + 2].text = T("Unterminated quote", "")]_vars

\* send "a  was submitted: only the echo and the error are in the log.
C15_Witness ==
    /\ ev = Ev("handleCommandLine", << "send", Blank, "\"", "a" >>)
    /\ messages[Len(messages)].text = T("Unterminated quote", "")
    /\ sent[Len(sent)].func = "get_messages"

\* C16: a line that parses to an empty command (empty, whitespace only, or
\* nothing but empty quoted spans) is a no-op: the log, the transport and
\* everything else stay as they were.
C16_EmptyLineNoOp ==
    [][(Submitted' /\ ~Unterminated(ev'.n) /\ parseCommand(ev'.n).cmd = "") =>
          /\ messages' = messages
          /\ sent' = sent
          /\ UNCHANGED << idRef, sessionVars, uiVars >>]_vars

\* The log with the echo of the submitted line, as the handler finds it.
Echoed(line) == pushMessage(Frame, T("> ", str(line)), "COMMAND", "System", NoId)

\* What running the handler registered under key with args does to the state.
Invokes(key, args, line) ==
    LET f == catch(call(key, args, Echoed(line)))
    IN /\ messages' = f.messages
       /\ idRef' = f.idRef
       /\ sent' = f.sent
       /\ roomID' = f.roomID
       /\ roomName' = f.roomName
       /\ systemNotification' = f.note
       /\ themeColors' = f.themeColors
       /\ savedThemes' = f.savedThemes

Runnable(line) == ~isBlank(line) /\ ~Unterminated(line)

\* C17: when the argument list is not empty and a handler is registered
\* under "<command> <args[0]>", that handler runs with args[0] removed;
\* otherwise, when a handler is registered under "<command>", that handler
\* runs with the whole argument list.
C17_RegistryResolution ==
    [][(Submitted' /\ Runnable(ev'.n)) =>
          LET line == ev'.n
              p == parseCommand(line)
              two == IF p.args = << >> THEN "" ELSE p.cmd \o " " \o p.args[1]
          IN IF two \in COMMANDS THEN Invokes(two, Tail(p.args), line)
             ELSE p.cmd \in COMMANDS => Invokes(p.cmd, p.args, line)]_vars

\* theme save x has run the "theme save" handler with the argument x.
C17_Witness ==
    /\ ev = Ev("handleCommandLine", << "theme", Blank, "save", Blank, "x" >>)
    /\ DOMAIN savedThemes = {"x"}
    /\ systemNotification = T("Theme gespeichert: ", "x")

\* C18: a command name that is not registered, with no registered two-token
\* form either, runs no handler: the log gains the echo and an ERROR entry
\* naming the command, and nothing else changes.
C18_UnknownCommand ==
    [][(Submitted' /\ Runnable(ev'.n)) =>
          LET line == ev'.n
              p == parseCommand(line)
              two == IF p.args = << >> THEN "" ELSE p.cmd \o " " \o p.args[1]
          IN (two \notin COMMANDS /\ p.cmd \notin COMMANDS) =>
                /\ sent' = sent
                /\ UNCHANGED << sessionVars, uiVars >>
                /\ Len(messages') = Len(messages) + 2
                /\ messages'[Len(messages')].kind = "ERROR"
                /\ messages'[Len(messages')].text = T("Unbekannter Befehl: ", p.cmd)]_vars

NeedArgument ==
    { << "send" >>, << "forge" >>, << "impersonate" >>, << "create", Blank, "room" >>,
      << "accede" >>, << "annihilate" >>, << "theme", Blank, "save" >> }

\* C19: send, forge, impersonate, create room, accede, annihilate and theme
\* save submitted without their argument append an ERROR entry to the log
\* and place no request on the transport.
C19_MissingArgument ==
    [][(Submitted' /\ ev'.n \in NeedArgument) =>
          /\ sent' = sent
          /\ messages'[Len(messages')].kind = "ERROR"]_vars

\* A reply that carries an error: for get_rooms it carries no room list.
ErrorReply(func) ==
    IF func = "get_rooms" THEN ReplyGetRooms(<< >>) ELSE ReplyStep(func, TRUE)

\* C20: every recognized reply that carries an error and arrives while
\* PendingSuppression is clear appends an ERROR entry to the log, and the
\* message handler does not throw.
C20_ErrorRepliesReported ==
    [][\A func \in Responses :
          (ErrorReply(func) /\ ~nextRequestSilent) =>
             /\ Len(messages') > 0
             /\ messages'[Len(messages')].kind = "ERROR"
             /\ messages'[Len(messages')].id = idRef
             /\ ~onmessageThrows(func, TRUE)]_vars

\* C21: what a reply does to the identity, the current room and the cached
\* room list is a function of the reply and the request it answers alone:
\* the same with PendingSuppression set as with the flag clear.
C21_SuppressionKeepsEffects ==
    [][/\ \A result \in RoomLists :
             ReplyGetRooms(result) =>
                rooms' = result /\ UNCHANGED << user, roomID, roomName >>
       /\ \A func \in {"login_as", "create_user"}, err \in BOOLEAN :
             ReplyStep(func, err) =>
                /\ user' = (IF err THEN user ELSE NextRequest.str)
                /\ UNCHANGED << roomID, roomName, rooms >>
       /\ \A err \in BOOLEAN :
             ReplyCreateRoom(err) =>
                /\ roomID' = (IF err THEN roomID ELSE RoomIdOf(NextRequest.str))
                /\ roomName' = (IF err THEN roomName ELSE NextRequest.str)
                /\ UNCHANGED << user, rooms >>
       /\ \A func \in {"msg", "get_messages", "join_room", "delete_msg", "nameof_user"},
             err \in BOOLEAN :
             ReplyStep(func, err) => UNCHANGED << user, roomID, roomName, rooms >>]_vars

\* The room list of the bootstrap was cached while its log entry was dropped.
C21_Witness ==
    /\ ev = Ev("get_rooms", 2)
    /\ rooms = ServerRooms
    /\ ~nextRequestSilent
    /\ \A i \in 1..Len(messages) : messages[i].kind # "TEMPINFO"

\* C22: the identity is "guest" after a mount that found nothing persisted;
\* it changes only in a step that processes a login_as or create_user reply
\* without error; a submitted command line (forge and impersonate included)
\* and a reply that carries an error leave it as it is.
C22_IdentityChanges ==
    /\ [](ev = Ev("mount", 0) /\ roomID = NoRoomID => user = "guest")
    /\ [][/\ user' # user => (ReplyLoginAs(FALSE) \/ ReplyCreateUser(FALSE))
          /\ Submitted' => user' = user
          /\ \A func \in Responses : ReplyStep(func, TRUE) => user' = user]_vars

\* forge bob left the identity alone; the create_user reply has changed it.
C22_Witness ==
    /\ ev = Ev("create_user", 0)
    /\ user = "bob"
    /\ mountUser # "bob"
    /\ store.user = "bob"

Broadcasts == {"new_message", "room_created", "room_updated", "user_joined",
               "user_left", "message_deleted"}

\* C23: the current room (id and name) changes only in a step that processes
\* a reply or a broadcast of the server; a step that runs a command handler
\* leaves it as it is.
C23_RoomChangesOnReply ==
    [][/\ << roomID, roomName >>' # << roomID, roomName >>
             => ev'.name \in Responses \cup Broadcasts
       /\ Submitted' => UNCHANGED << roomID, roomName >>]_vars

\* Entries that carry an id of the server: chat entries, and what is left of
\* them after a message_deleted broadcast.
FromServer(e) == e.kind = "IN" \/ e.text = Deleted

\* C24: in every reachable log no two entries share an id, the ids of the
\* locally generated entries strictly increase in log order, and no locally
\* generated entry has the id of a server-originated entry of the log.
C24_UniqueIds ==
    \A i, j \in 1..Len(messages) :
        i < j =>
           /\ messages[i].id # messages[j].id
           /\ (~FromServer(messages[i]) /\ ~FromServer(messages[j]))
                 => messages[i].id < messages[j].id

\* Everything but the bookkeeping of the run (ev, nInputs).
programVars == << messages, idRef, sessionVars, mountUser, mountRoomID, uiVars, awaiting,
                 connVars, nextRequestSilent, bootTimers, tornDown, sent, acked >>

\* No reply handler ran: no request was answered and identity, room and room
\* list are as they were.
NoReplyHandler ==
    /\ acked' = acked
    /\ ev'.name \notin ResponseNames
    /\ UNCHANGED sessionVars

Classified(data, isBroadcast) ==
    /\ isBroadcast =>
          /\ onBroadcast(data)
          /\ NoReplyHandler
          /\ data.event \notin EventNames => UNCHANGED programVars
    /\ ~isBroadcast =>
          /\ onResponse(data)
          /\ ev'.name \notin EventNames
          /\ data.response \notin ResponseNames => UNCHANGED programVars

StartsLine == ev'.name \in {"onKeyDown", "handleSendMessage"} /\ nInputs' = nInputs + 1

\* C26: at most one call of handleCommandLine is in flight; when a line is
\* submitted, by Enter or by the send button, the call for every earlier
\* line has ended, and the ERROR entry of a line that failed is in the log
\* at the end of the step that submitted it.
C26_NotReentrant ==
    /\ [](Len(awaiting) <= 1)
    /\ [][StartsLine =>
            /\ awaiting = << >>
            /\ (~isBlank(ev'.n) /\ dispatch(ev'.n, Frame).thrown) =>
                  /\ awaiting' = << >>
                  /\ messages'[Len(messages')].kind = "ERROR"]_vars

\* A second line was submitted with the button after the call for the first
\* had ended, and its own call is suspended at the await.
C26_Witness ==
    /\ ev = Ev("handleSendMessage", << "whoami" >>)
    /\ nInputs = 2
    /\ awaiting = << "whoami" >>
    /\ Len(sent) > acked
    /\ sent[Len(sent)].func = "msg"

\* C27: where no roomtour is submitted, every get_rooms request is one the
\* session has issued on its own (on open, on a room_created or room_updated
\* broadcast, after a create_room reply without error); the reply to each of
\* them is cached as the room list and leaves the log as it was.
C27_SilentRoomList ==
    [][\A result \in RoomLists :
          ReplyGetRooms(result) => (rooms' = result /\ messages' = messages)]_vars

\* C28: the entry appended for a new_message broadcast carries the id, text,
\* sender and timestamp of the server and leaves the local id counter as it
\* was; an entry appended without an id (the notice of an open transport)
\* gets the next value of the local counter.
C28_AppendHonoursFields ==
    [][/\ \A id \in ServerIds :
             BcNewMessage(id, "alice") =>
                LET e == messages'[Len(messages')]
                IN /\ e.id = id
                   /\ e.text = T("hi", "")
                   /\ e.sender = "alice"
                   /\ e.ts = "server"
                   /\ idRef' = idRef
       /\ \A s \in Sockets :
             SockOpen(s) =>
                /\ messages'[Len(messages')].id = idRef
                /\ idRef' = idRef + 1]_vars

\* C29: in every reachable log an entry with a readBy value is a chat entry
\* (IN or OUT) whose sender is the current identity.
C29_ReadByOnlyOnOwn ==
    \A i \in 1..Len(messages) :
        messages[i].readBy # NoReadBy =>
           /\ messages[i].kind \in {"IN", "OUT"}
           /\ messages[i].sender = user

\* C30: the online flag, the transport handle and the reconnect timer change
\* only in the open and close callbacks of the transport and when the
\* reconnect timer fires; a step that runs a command handler, a reply handler
\* or a broadcast handler leaves the whole connection state as it was.
C30_ConnectionFrame ==
    [][/\ << onlineFlag, ws, reconnectTimeoutRef >>' # << onlineFlag, ws, reconnectTimeoutRef >>
             => ev'.name \in {"open", "close", "reconnect"}
       /\ ev'.name \in ResponseNames \cup EventNames \cup {"handleCommandLine"}
             => UNCHANGED connVars]_vars

\* send hi has gone out on the second transport, after a close and the
\* reconnect.
C30_Witness ==
    /\ ev = Ev("handleCommandLine", << "send", Blank, "hi" >>)
    /\ ws = 2
    /\ onlineFlag
    /\ sock[1] = "CLOSED"
    /\ sent[Len(sent)].func = "msg"

\* Transports whose close event has been delivered.
Closed(q) == { s \in Sockets : q[s] = "CLOSED" }

\* C31: the close reaction of a transport detaches its callbacks and releases
\* the handle; a transport whose close has been processed never has callbacks
\* again, never becomes the handle again and delivers no further open or
\* close event; and the close reactions run so far (one reconnect timer each)
\* are exactly as many as the transports that have closed.
C31_CloseDetaches ==
    [][/\ \A s \in Sockets :
            /\ (s \notin Closed(sock) /\ s \in Closed(sock'))
                  => /\ ev'.name = "close"
                     /\ s \notin handlers'
                     /\ ws' = NoSocket
            /\ s \in Closed(sock)
                  => /\ s \notin handlers \cup handlers'
                     /\ ws' # s
                     /\ s \in Closed(sock')
       /\ nTimer' = Cardinality(Closed(sock'))]_vars

\* The first transport has closed, and a reply has arrived on the second.
C31_Witness ==
    /\ 1 \in Closed(sock)
    /\ ws = 2
    /\ sock[2] = "OPEN"
    /\ ev.name \in Responses
    /\ nTimer = 1

\* An empty quoted span at pieces i and i + 1 of a line: a quote that opens
\* outside quotes and is closed at once, with whitespace on both sides.
EmptySpanAt(line, i) ==
    /\ line[i] \in Quotes
    /\ line[i + 1] = line[i]
    /\ QuoteAt(line, i) = ""
    /\ line[i - 1] = Blank
    /\ line[i + 2] = Blank

WithoutSpan(line, i) == SubSeq(line, 1, i - 1) \o SubSeq(line, i + 2, Len(line))

\* C32: removing an empty quoted span that stands between whitespace leaves
\* the result of parseCommand (command, arguments, or the unterminated-quote
\* error) as it was, so send places the same message on the transport; and
\* neither the command of a non-empty parse nor any argument is the empty
\* string.
C32_EmptySpan ==
    [][Submitted' =>
          LET line == ev'.n
              p == parseCommand(line)
          IN /\ \A i \in 2..(Len(line) - 2) :
                   EmptySpanAt(line, i) =>
                      /\ parseCommand(WithoutSpan(line, i)) = p
                      /\ (p.cmd = "send" /\ p.args # << >>) =>
                            sent' = Append(sent,
                                Req("msg", join(parseCommand(WithoutSpan(line, i)).args), roomID, 0))
             /\ \A k \in 1..Len(p.args) : p.args[k] # ""
             /\ p.cmd = "" => p.args = << >>
             /\ \A k \in 1..Len(words(line).args) : words(line).args[k] # << >>]_vars

\* send "" a  has placed the message a on the transport.
C32_Witness ==
    /\ ev = Ev("handleCommandLine", << "send", Blank, "\"", "\"", Blank, "a" >>)
    /\ sent[Len(sent)] = Req("msg", "a", roomID, 0)

\* Transports that exist: created and not yet closed.
Live(q) == { s \in Sockets : q[s] \in {"CONNECTING", "OPEN", "CLOSING"} }

\* C33: at most one transport exists and it is the handle, at most one
\* reconnect timer is pending, and no reconnect timer is pending while there
\* is a handle.
C33_OneTransportOneTimer ==
    /\ Cardinality(Live(sock)) <= 1
    /\ Live(sock) \subseteq {ws}
    /\ handlers \subseteq {ws}
    /\ Cardinality(timers) <= 1
    /\ timers # {} => ws = NoSocket

\* After a close: no handle, and the one reconnect timer is pending.
C33_Witness ==
    /\ ev.name = "close"
    /\ ws = NoSocket
    /\ timers = {reconnectTimeoutRef}
    /\ Live(sock) = {}

\* The connection state Connected: between onopen and onclose of the handle.
IsConnected == onlineFlag /\ ws # NoSocket

\* C34: a step places requests on the transport only if the connection is
\* Connected with an open transport when the step ends (the open step
\* itself, or a step taken while Connected); a command line submitted, or a
\* bootstrap timer firing, while the connection is not Connected places
\* nothing on the transport.
C34_RequestsOnlyWhenConnected ==
    [][/\ (sent' # sent /\ ev'.name # "reconnect")
            => /\ IsConnected'
               /\ ReadyState(ws)' = "OPEN"
               /\ Len(sent') > Len(sent)
               /\ SubSeq(sent', 1, Len(sent)) = sent
       /\ ev'.name = "reconnect" => sent' = << >>
       /\ ((Submitted' \/ ev'.name = "boot_timer") /\ ~IsConnected) => sent' = sent]_vars

\* send hi was submitted while the new transport was still connecting: the
\* InvalidStateError is in the log and nothing is on the transport.
C34_Witness ==
    /\ ev = Ev("handleCommandLine", << "send", Blank, "hi" >>)
    /\ ws = 2
    /\ sock[2] = "CONNECTING"
    /\ sent = << >>
    /\ messages[Len(messages)].kind = "ERROR"

\* C35: a get_messages reply leaves a log with one entry for every element
\* of the reply's result list, in the order of the list, each of kind IN with
\* the id, sender and text of its element, and nothing else (no entry at all
\* when the reply carries no list); whatever the log held before is gone.
C35_HistoryReplacesLog ==
    [][ev'.name = "get_messages" =>
          \A err \in BOOLEAN, result \in HistoryReplies :
              ReplyGetMessages(err, result) =>
                  /\ Len(messages') = IF err THEN 0 ELSE Len(result)
                  /\ \A i \in 1..Len(messages') :
                        /\ messages'[i].id = result[i].MessageID
                        /\ messages'[i].kind = "IN"
                        /\ result[i].Name # undefined => messages'[i].sender = result[i].Name
                        /\ result[i].Text # undefined => messages'[i].text = T(result[i].Text, "")]_vars

\* The reply to the history command has replaced a log that held the
\* bootstrap history and the echo of the command.
C35_Witness ==
    /\ ev = Ev("get_messages", 0)
    /\ nInputs = 1
    /\ Cardinality({ i \in 1..Len(sent) : sent[i].func = "get_messages" }) = 2
    /\ acked = Len(sent)
    /\ messages = history(<< ServerMsg(2, "bob", 0), ServerMsg(1, "alice", 1) >>)

\* The ids that carry a tombstone in log m.
Tombstoned(m) == { m[i].id : i \in { j \in 1..Len(m) : m[j].text = Deleted } }

\* C36: an annihilate that places a delete_msg request on the transport never
\* asks for an id that carries a tombstone in the log.
C36_TombstoneNotTargeted ==
    [][(/\ Submitted'
        /\ Len(sent') = Len(sent) + 1
        /\ sent'[Len(sent')].func = "delete_msg")
          => sent'[Len(sent')].message_id \notin Tombstoned(messages)]_vars

\* The chat entries of log m.
Chat(m) == { m[i] : i \in { j \in 1..Len(m) : m[j].kind \in {"IN", "OUT"} } }

\* C37: no entry of the log is of kind OUT; the send command and the reply
\* to its request leave the chat entries of the log as they were; a chat
\* entry enters the log only in a new_message step, with the id of the
\* broadcast, or in a get_messages step, and neither takes an id from the
\* local counter.
C37_SendAppendsNoChatEntry ==
    [][/\ \A i \in 1..Len(messages') : messages'[i].kind # "OUT"
       /\ (Submitted' /\ parseCommand(ev'.n).cmd = "send") => Chat(messages') = Chat(messages)
       /\ ev'.name = "msg" => Chat(messages') = Chat(messages)
       /\ Chat(messages') \ Chat(messages) # {}
             => /\ ev'.name \in {"new_message", "get_messages"}
                /\ idRef' = idRef
                /\ ev'.name = "new_message"
                      => \A e \in Chat(messages') \ Chat(messages) : e.id = ev'.n]_vars

\* send hi has been placed on the transport and answered without error; the
\* chat entries of the log are those of the room history.
C37_Witness ==
    /\ ev = Ev("msg", 0)
    /\ sent[Len(sent)] = Req("msg", "hi", roomID, 0)
    /\ acked = Len(sent)
    /\ Chat(messages) = { ServerEntry(1, "alice", 1), ServerEntry(2, "bob", 0) }

\* C38: accede with a name that no room of the cached list bears appends an
\* ERROR entry, places nothing on the transport and leaves the room and the
\* stored session as they were; create room with a name that a room of the
\* cached list bears appends an ERROR entry and places nothing on the
\* transport.
C38_RoomNameChecks ==
    [][Submitted' =>
          LET p == parseCommand(ev'.n)
          IN /\ (p.cmd = "accede" /\ p.args # << >> /\ ~roomExists(p.args[1]))
                   => /\ IsLast(messages', T("Raum nicht gefunden: ", p.args[1]), "ERROR")
                      /\ sent' = sent
                      /\ UNCHANGED << roomID, roomName, store >>
             /\ (/\ p.cmd = "create" /\ Len(p.args) >= 2 /\ p.args[1] = "room"
                 /\ roomExists(join(Tail(p.args))))
                   => /\ IsLast(messages', T("Raum existiert bereits: ", join(Tail(p.args))), "ERROR")
                      /\ sent' = sent
                      /\ UNCHANGED << rooms, roomID, roomName, store >>]_vars

\* create room r1 was submitted to a connected session that has r1 in its
\* room list: the error is in the log and no request went out.
C38_Witness ==
    /\ ev = Ev("handleCommandLine", << "create", Blank, "room", Blank, "r1" >>)
    /\ Online
    /\ roomExists("r1")
    /\ IsLast(messages, T("Raum existiert bereits: ", "r1"), "ERROR")
    /\ sent[Len(sent)].func = "get_messages"

\* Identity and room of an engine that starts with `saved` in the store.
StartsWith(saved) == Snapshot(loadUser(saved), loadRoomID(saved), loadRoomName(saved))

ClosesAt(line, i) == QuoteAt(line, i) # "" /\ line[i] = QuoteAt(line, i)

\* Piece i of a line is the quote that opens a span.
OpensAt(line, i) == QuoteAt(line, i) = "" /\ line[i] \in Quotes

\* C40: in a line whose quotes are closed, a word ends at every closing
\* quote; no word ends between text and the opening quote that directly
\* follows it when the span has content; so text directly after a closing
\* quote belongs to a new word.  send ab"c d"ef has the arguments "abc d"
\* and "ef" and places the message "abc d ef" on the transport.
C40_ClosingQuoteEndsToken ==
    [][(Submitted' /\ ~Unterminated(ev'.n)) =>
          LET line == ev'.n
              w == words(line).args
          IN /\ \A i \in 1..Len(line) :
                   ClosesAt(line, i) => ContentUpTo(line, i) \in Boundaries(w)
             /\ \A i \in 2..(Len(line) - 1) :
                   (/\ OpensAt(line, i)
                    /\ QuoteAt(line, i - 1) = "" /\ IsContent(line, i - 1)
                    /\ line[i + 1] # line[i])
                      => ContentUpTo(line, i) \notin Boundaries(w)
             /\ \A i \in 1..(Len(line) - 1) :
                   (ClosesAt(line, i) /\ IsContent(line, i + 1))
                      => \E k \in 1..Len(w) : w[k][1] = line[i + 1] /\
                            ContentUpTo(line, i) = Len(Flatten(SubSeq(w, 1, k - 1)))
             /\ line = JoinedLine =>
                   /\ parseCommand(line).args = << "abc d", "ef" >>
                   /\ sent' = Append(sent, Req("msg", "abc d ef", roomID, 0))]_vars

\* send ab"c d"ef has placed the message "abc d ef" on the transport.
C40_Witness ==
    /\ ev = Ev("handleCommandLine", JoinedLine)
    /\ sent[Len(sent)] = Req("msg", "abc d ef", roomID, 0)

====
